---- MODULE Spec2Model ----
(***************************************************************************)
(* Verification model of the speech-to-text application:                   *)
(*   - the engine orchestration (Engine.ToggleRecording, the               *)
(*     processRecording goroutines, Recorder, state.Instance), checked     *)
(*     under Spec;                                                         *)
(*   - the transcription pipeline (Instance.TranscribeWAV,                 *)
(*     ParakeetModel.Transcribe, runDecoder, argmax and the                *)
(*     detokenization), checked under SpecPipeline.                        *)
(***************************************************************************)
EXTENDS Integers, Sequences, FiniteSets, TLC

(***************************************************************************)
(* Bounds of the model.                                                    *)
(***************************************************************************)
MaxClicks == 4
MaxData == 1

VARIABLES
  statusCurrent,   \* state.Instance.statusCurrent
  statusPrevious,  \* state.Instance.statusPrevious
  history,         \* state.Instance.history, newest first
  historyLimit,    \* state.Instance.historyLimit
  nextID,          \* state.Instance.nextID
  isRecording,     \* Recorder.isRecording
  recData,         \* Recorder.data
  device,          \* Recorder.device: "nil", "inited", "started", "stopped"
  uiPc,            \* position of the handleMenuClicks goroutine
  uiClicks,        \* number of menu clicks handled so far
  lmPc,            \* position of the loadModelsAsync goroutine
  ppEnabled,       \* postprocess.Instance.IsEnabled()
  procs,           \* the processRecording goroutines, in the order of their creation
  mainPc,          \* position of run in cmd: "running", then its deferred calls, then "exited"
  vocab,           \* ParakeetModel.vocab
  blankIdx,        \* ParakeetModel.blankIdx
  vocabLoaded,     \* LoadVocabulary has returned nil at least once
  tPc,             \* position of the TranscribeWAV call
  wavData,         \* the WAV file given to TranscribeWAV (its name in WavFiles)
  stages,          \* the pipeline stages entered by the call, in order
  samples,         \* output of processWAVBytes
  features,        \* runPreprocessor: the copied features tensor
  featuresLen,     \* runPreprocessor: the reported features_lens[0]
  encCall,         \* runEncoder: shapes and length handed to the encoder session
  encoderOut,      \* runEncoder: the copied encoder output tensor
  encoderLen,      \* runEncoder: the reported encoded_lengths[0]
  t,               \* runDecoder: loop variable
  transcribedTokens, \* runDecoder: emitted token strings
  lastEmittedToken,  \* runDecoder: last emitted token, -1 for none
  lastToken,       \* runDecoder: target token of the next decoder step
  state1,          \* runDecoder: recurrent state 1
  state2,          \* runDecoder: recurrent state 2
  step,            \* runDecoder: locals of the last loop iteration
  calls,           \* the decoder-joint session runs so far: inputs and chosen token
  ort,             \* native handles: created, destroyed, sessions constructed per model
  result,          \* returned text
  err,             \* returned error, <<>> for nil, else the chain of messages
  lastLoad,        \* the last LoadVocabulary call: table, returned error, and
                   \* the table of the last call that returned nil
  resampleCall,    \* the last resample call: arguments, indices read, output
  historyPanic,    \* a history operation has panicked (slice bounds out of range)
  statusMu,        \* state.Instance.statusMu: the writer and the readers holding it
  statusThreads,   \* position and locals of each goroutine calling SetStatus / GetStatus
  statusProduced   \* the (current, previous) pairs written by the SetStatus calls so far

engineVars == <<statusCurrent, statusPrevious, history, historyLimit, nextID,
                isRecording, recData, device, uiPc, uiClicks, lmPc, ppEnabled,
                procs, mainPc>>

pipelineVars == <<vocab, blankIdx, vocabLoaded, tPc, wavData, stages, samples, features,
                  featuresLen, encCall, encoderOut, encoderLen, t,
                  transcribedTokens, lastEmittedToken, lastToken, state1, state2,
                  step, calls, ort, result, err>>

componentVars == <<lastLoad, resampleCall, historyPanic, statusMu, statusThreads,
                   statusProduced>>

vars == <<engineVars, pipelineVars, componentVars>>

(***************************************************************************)
(* state.Instance                                                          *)
(***************************************************************************)
StatusUnknown == "Unknown"
StatusUnloaded == "Unloaded"
StatusLoading == "Loading"
StatusLoaded == "Loaded"
StatusListening == "Listening"
StatusTranscribing == "Transcribing"
StatusPostProcessing == "PostProcessing"

\* SetStatus: previous takes the old current, current takes the new status.
SetStatus(newStatus) ==
  /\ statusPrevious' = statusCurrent
  /\ statusCurrent' = newStatus

\* history[:n] of Go for 0 <= n <= Len(h)
Truncate(h, n) == SubSeq(h, 1, n)

\* h[:n] panics (slice bounds out of range) unless 0 <= n <= len(h).
SliceInRange(h, n) == 0 <= n /\ n <= Len(h)

\* AddHistoryEntry: prepend the entry, then cut the list to the limit.
AddHistoryEntry(text) ==
  LET entry == [ID |-> nextID, Text |-> text]
      h == <<entry>> \o history
  IN /\ nextID' = nextID + 1
     /\ history' = IF Len(h) > historyLimit THEN Truncate(h, historyLimit) ELSE h

(***************************************************************************)
(* Text: a string is a sequence of characters.  Marker is the sub-word     *)
(* boundary character U+2581.                                              *)
(***************************************************************************)
Marker == "U+2581"
Space == " "
Tab == "\t"
IsSpace(c) == c \in {Space, Tab}

Min(S) == CHOOSE x \in S : \A y \in S : x <= y
Max(S) == CHOOSE x \in S : \A y \in S : x >= y
Abs(x) == IF x < 0 THEN -x ELSE x

\* strings.Fields: the maximal runs of non-space characters, in order.
RECURSIVE Fields(_)
Fields(line) ==
  LET starts == {i \in 1..Len(line) : ~IsSpace(line[i])}
  IN IF starts = {} THEN <<>>
     ELSE LET b == Min(starts)
              ends == {i \in b..Len(line) : IsSpace(line[i])}
              e == IF ends = {} THEN Len(line) + 1 ELSE Min(ends)
          IN <<SubSeq(line, b, e - 1)>> \o Fields(SubSeq(line, e, Len(line)))

\* strings.Join(tokens, "")
RECURSIVE Join(_)
Join(tokens) ==
  IF tokens = <<>> THEN <<>> ELSE Head(tokens) \o Join(Tail(tokens))

\* strings.ReplaceAll for a one-character pattern and replacement
ReplaceAll(s, old, new) ==
  [i \in 1..Len(s) |-> IF s[i] = old THEN new ELSE s[i]]

\* strings.TrimSpace
TrimSpaceLeftOnly(s) ==
  LET keep == {i \in 1..Len(s) : ~IsSpace(s[i])}
  IN IF keep = {} THEN <<>> ELSE SubSeq(s, Min(keep), Len(s))

TrimSpace(s) ==
  LET keep == {i \in 1..Len(s) : ~IsSpace(s[i])}
  IN IF keep = {} THEN <<>> ELSE SubSeq(s, Min(keep), Max(keep))

\* The post-processing at the end of runDecoder.
Detokenize(tokens) ==
  TrimSpace(ReplaceAll(ReplaceAll(Join(tokens), Marker, Space), Marker, Space))

(***************************************************************************)
(* ParakeetModel.LoadVocabulary on the lines of the vocabulary file        *)
(***************************************************************************)
BlkToken == <<"<", "b", "l", "k", ">">>

RECURSIVE LoadVocabularyScan(_, _, _, _)
LoadVocabularyScan(lines, idx, v, b) ==
  IF idx >= Len(lines) THEN [vocab |-> v, blankIdx |-> b]
  ELSE LET parts == Fields(lines[idx + 1])
       IN IF Len(parts) > 0
          THEN LoadVocabularyScan(lines, idx + 1, Append(v, parts[1]),
                                  IF parts[1] = BlkToken THEN idx ELSE b)
          ELSE LoadVocabularyScan(lines, idx + 1, v, b)

LoadVocabulary(lines) ==
  LET r == LoadVocabularyScan(lines, 0, <<>>, -1)
  IN [vocab |-> r.vocab,
      blankIdx |-> IF r.blankIdx = -1 THEN Len(r.vocab) - 1 ELSE r.blankIdx]

ErrOpeningVocab == <<"error opening vocab file", "io">>
ErrReadingVocab == <<"error reading vocab file", "io">>

LoadVocabularyResultInPlace(m, lines, outcome, k) ==
  IF outcome = "openErr"
  THEN [vocab |-> m.vocab, blankIdx |-> m.blankIdx, err |-> ErrOpeningVocab]
  ELSE IF outcome = "readErr"
  THEN LET r == LoadVocabularyScan(SubSeq(lines, 1, k), 0, <<>>, -1)
       IN [vocab |-> r.vocab, blankIdx |-> r.blankIdx, err |-> ErrReadingVocab]
  ELSE LET r == LoadVocabulary(lines)
       IN [vocab |-> r.vocab, blankIdx |-> r.blankIdx, err |-> <<>>]

\* The fields of the model m = [vocab, blankIdx] after LoadVocabulary, and the
\* returned error.  outcome is what the file system does: "ok", "openErr"
\* (os.Open fails) or "readErr" (the scanner fails after k lines); the table
\* is scanned into locals, which are assigned to the fields at the end.
LoadVocabularyResult(m, lines, outcome, k) ==
  IF outcome = "openErr"
  THEN [vocab |-> m.vocab, blankIdx |-> m.blankIdx, err |-> ErrOpeningVocab]
  ELSE IF outcome = "readErr"
  THEN [vocab |-> m.vocab, blankIdx |-> m.blankIdx, err |-> ErrReadingVocab]
  ELSE LET r == LoadVocabulary(lines)
       IN [vocab |-> r.vocab, blankIdx |-> r.blankIdx, err |-> <<>>]

(***************************************************************************)
(* argmax (indices are 0-based as in the source)                           *)
(***************************************************************************)
RECURSIVE argmaxLoop(_, _, _, _)
argmaxLoop(slice, i, maxIdx, maxVal) ==
  IF i > Len(slice) THEN maxIdx
  ELSE IF slice[i] > maxVal
       THEN argmaxLoop(slice, i + 1, i - 1, slice[i])
       ELSE argmaxLoop(slice, i + 1, maxIdx, maxVal)

RECURSIVE argmaxLastLoop(_, _, _, _)
argmaxLastLoop(slice, i, maxIdx, maxVal) ==
  IF i > Len(slice) THEN maxIdx
  ELSE IF slice[i] >= maxVal
       THEN argmaxLastLoop(slice, i + 1, i - 1, slice[i])
       ELSE argmaxLastLoop(slice, i + 1, maxIdx, maxVal)

argmaxLast(slice) ==
  IF Len(slice) = 0 THEN 0 ELSE argmaxLastLoop(slice, 1, 0, slice[1])

argmax(slice) ==
  IF Len(slice) = 0 THEN 0 ELSE argmaxLoop(slice, 1, 0, slice[1])

(***************************************************************************)
(* Tensors.  A tensor whose elements the code never reads one by one is    *)
(* kept as its length and a fill value; the encoder output, which          *)
(* runDecoder slices, holds at flat index i the value i + 1, so that every *)
(* element is identifiable and differs from the zero of a fresh slice.     *)
(***************************************************************************)
ConstTensor(n, v) == [n |-> n, kind |-> "const", v |-> v]
RampTensor(n) == [n |-> n, kind |-> "ramp", v |-> 0]
TensorLen(x) == x.n
TensorAt(x, i) == IF x.kind = "const" THEN x.v ELSE i + 1
NoTensor == ConstTensor(0, 0)

(***************************************************************************)
(* float64 arithmetic of resample.  The mantissa of a float64 does not fit *)
(* an integer of the checker, so natural numbers of any size are           *)
(* little-endian sequences of 14-bit limbs without leading zero limbs      *)
(* (<<>> is 0).                                                            *)
(***************************************************************************)
PowersOfTwo == <<1, 2, 4, 8, 16, 32, 64, 128, 256, 512, 1024, 2048, 4096, 8192>>

\* 2^n for n below LimbBits
Pow2(n) == PowersOfTwo[n + 1]

LimbBits == Len(PowersOfTwo)
BigBase == 2 * Pow2(LimbBits - 1)


BigNorm(x) == SubSeq(x, 1, Max({0} \cup {i \in 1..Len(x) : x[i] # 0}))

RECURSIVE BigFromInt(_)
BigFromInt(n) == IF n = 0 THEN <<>> ELSE <<n % BigBase>> \o BigFromInt(n \div BigBase)

RECURSIVE BigToInt(_)
BigToInt(x) == IF x = <<>> THEN 0 ELSE x[1] + BigBase * BigToInt(Tail(x))

\* the number of bits of a limb
IntBitLen(n) == IF n = 0 THEN 0 ELSE 1 + Max({b \in 0..(LimbBits - 1) : Pow2(b) <= n})

BigBitLen(x) == IF x = <<>> THEN 0 ELSE LimbBits * (Len(x) - 1) + IntBitLen(x[Len(x)])

Limb(x, i) == IF i <= Len(x) THEN x[i] ELSE 0

\* x + y * k + carry for a limb k, limb by limb
RECURSIVE BigMulAddLoop(_, _, _, _, _)
BigMulAddLoop(x, y, k, i, carry) ==
  IF i > Len(x) /\ i > Len(y) /\ carry = 0 THEN <<>>
  ELSE LET v == Limb(x, i) + Limb(y, i) * k + carry
       IN <<v % BigBase>> \o BigMulAddLoop(x, y, k, i + 1, v \div BigBase)

BigMulAdd(x, y, k) == BigNorm(BigMulAddLoop(x, y, k, 1, 0))

BigAdd(x, y) == BigMulAdd(x, y, 1)

BigShlLimbs(x, n) == IF x = <<>> THEN x ELSE [i \in 1..n |-> 0] \o x

RECURSIVE BigMulLoop(_, _, _)
BigMulLoop(x, y, j) ==
  IF j > Len(y) THEN <<>>
  ELSE BigAdd(BigShlLimbs(BigMulAdd(<<>>, x, y[j]), j - 1), BigMulLoop(x, y, j + 1))

BigMul(x, y) == BigMulLoop(x, y, 1)

\* x * 2^n
BigShl(x, n) == BigShlLimbs(BigMulAdd(<<>>, x, Pow2(n % LimbBits)), n \div LimbBits)

\* floor(x / 2^n)
BigShr(x, n) ==
  LET drop == n \div LimbBits
      k == Pow2(n % LimbBits)
      y == IF drop >= Len(x) THEN <<>> ELSE SubSeq(x, drop + 1, Len(x))
  IN BigNorm([i \in 1..Len(y) |->
                (y[i] \div k) + (Limb(y, i + 1) % k) * (BigBase \div k)])

\* bit n of x (bit 0 is the lowest)
BigBit(x, n) == (Limb(x, n \div LimbBits + 1) \div Pow2(n % LimbBits)) % 2

\* some of the n lowest bits of x is set
BigLowBits(x, n) ==
  \/ \E i \in 1..(n \div LimbBits) : Limb(x, i) # 0
  \/ Limb(x, n \div LimbBits + 1) % Pow2(n % LimbBits) # 0

\* x < y
BigLess(x, y) ==
  IF Len(x) # Len(y) THEN Len(x) < Len(y)
  ELSE LET differ == {i \in 1..Len(x) : x[i] # y[i]}
       IN differ # {} /\ x[Max(differ)] < y[Max(differ)]

\* x - y for x >= y
RECURSIVE BigSubLoop(_, _, _, _)
BigSubLoop(x, y, i, borrow) ==
  IF i > Len(x) THEN <<>>
  ELSE LET v == x[i] - Limb(y, i) - borrow
       IN IF v < 0 THEN <<v + BigBase>> \o BigSubLoop(x, y, i + 1, 1)
          ELSE <<v>> \o BigSubLoop(x, y, i + 1, 0)

BigSub(x, y) == BigNorm(BigSubLoop(x, y, 1, 0))

\* Long division of the limbs i..1 of x by y after the remainder r of the
\* limbs above them: the limbs of the quotient from the highest down, then
\* the remainder as the last element.  The top limb of y is at least
\* BigBase / 2, so that the quotient of the two top limbs of the running
\* remainder by the top limb of y is the quotient's limb or up to two more.
RECURSIVE BigDivLimbs(_, _, _, _)

\* the estimate of the quotient's limb for the running remainder cur
BigDivEstimate(cur, y) ==
  Min({(Limb(cur, Len(y) + 1) * BigBase + Limb(cur, Len(y))) \div y[Len(y)],
       BigBase - 1})

\* the quotient's limb: the largest c up to the estimate with y * c <= cur
BigDivDigit(cur, y, est) ==
  Max({c \in (est - 2)..est : c >= 0 /\ ~BigLess(cur, BigMulAdd(<<>>, y, c))})

BigDivNext(x, y, i, cur, d) ==
  <<d>> \o BigDivLimbs(x, y, i - 1, BigSub(cur, BigMulAdd(<<>>, y, d)))

BigDivStep(x, y, i, cur) ==
  BigDivNext(x, y, i, cur, BigDivDigit(cur, y, BigDivEstimate(cur, y)))

BigDivLimbs(x, y, i, r) ==
  IF i = 0 THEN <<r>> ELSE BigDivStep(x, y, i, BigNorm(<<x[i]>> \o r))

\* the quotient and the remainder out of the limbs d of BigDivLimbs
BigDivResult(d, low, k) ==
  [q |-> BigNorm([i \in 1..low |-> d[low + 1 - i]]), r |-> BigShr(d[low + 1], k)]

\* the division of the shifted xs by ys from the limb low down
BigDivFrom(xs, ys, low, k) ==
  BigDivResult(BigDivLimbs(xs, ys, low, SubSeq(xs, low + 1, Len(xs))), low, k)

BigDivShifted(xs, ys, k) == BigDivFrom(xs, ys, Max({0, Len(xs) - Len(ys) + 1}), k)

BigDivShift(x, y, k) == BigDivShifted(BigShl(x, k), BigShl(y, k), k)

\* [q |-> floor(x / y), r |-> 0 exactly when y divides x] for y # 0: x and y
\* are shifted until the top limb of y is at least BigBase / 2, and the
\* division starts below the top limbs of x that are less than y.
BigDivMod(x, y) == BigDivShift(x, y, LimbBits - IntBitLen(y[Len(y)]))

(***************************************************************************)
(* float64: a finite value is m * 2^e with m below 2^53, the 53 bits of    *)
(* the significand of a Go float64, and a sign (there are two zeros);      *)
(* besides the finite values there are the two infinities and NaN.  The    *)
(* operands of resample are ints below 2^31, so that no finite result      *)
(* leaves the exponent range.                                               *)
(***************************************************************************)
MantissaBits == 53

\* the mantissa m2 after rounding: one more bit is dropped when the rounding
\* carried into bit 53
F64Carry(m2, e) ==
  IF BigBitLen(m2) > MantissaBits THEN [m |-> BigShr(m2, 1), e |-> e + 1]
  ELSE [m |-> m2, e |-> e]

\* x without its d lowest bits is m: round up when the highest dropped bit is
\* set and either a lower one is or m is odd
F64RoundUp(x, d, m, sticky) ==
  /\ BigBit(x, d - 1) = 1
  /\ (sticky \/ BigLowBits(x, d - 1) \/ BigBit(m, 0) = 1)

F64RoundTo(x, e, sticky, d, m) ==
  F64Carry(BigMulAdd(m, <<1>>, IF F64RoundUp(x, d, m, sticky) THEN 1 ELSE 0), e + d)

F64RoundBits(x, e, sticky, d) ==
  IF d <= 0 THEN [m |-> x, e |-> e] ELSE F64RoundTo(x, e, sticky, d, BigShr(x, d))

\* The magnitude x * 2^e (and a bit more when sticky) rounded to the nearest
\* float64, ties to the even mantissa.
F64Round(x, e, sticky) == F64RoundBits(x, e, sticky, BigBitLen(x) - MantissaBits)

\* the finite value of sign neg and rounded magnitude r
F64Finite(neg, r) == [kind |-> "finite", neg |-> neg, m |-> r.m, e |-> r.e]
F64Zero(neg) == [kind |-> "finite", neg |-> neg, m |-> <<>>, e |-> 0]
F64Inf(neg) == [kind |-> "inf", neg |-> neg, m |-> <<>>, e |-> 0]
F64NaN == [kind |-> "nan", neg |-> FALSE, m |-> <<>>, e |-> 0]

F64IsZero(x) == x.kind = "finite" /\ x.m = <<>>

\* float64(n) for an int n of magnitude below 2^31
F64FromInt(n) == [kind |-> "finite", neg |-> n < 0, m |-> BigFromInt(Abs(n)), e |-> 0]

\* x * y: NaN for a NaN operand and for zero times infinity
F64Mul(x, y) ==
  IF x.kind = "nan" \/ y.kind = "nan" THEN F64NaN
  ELSE IF x.kind = "inf" \/ y.kind = "inf"
  THEN (IF F64IsZero(x) \/ F64IsZero(y) THEN F64NaN ELSE F64Inf(x.neg # y.neg))
  ELSE IF x.m = <<>> \/ y.m = <<>> THEN F64Zero(x.neg # y.neg)
  ELSE F64Finite(x.neg # y.neg, F64Round(BigMul(x.m, y.m), x.e + y.e, FALSE))

\* the quotient d of the mantissas, x's shifted by s bits, rounded
F64Quotient(d, e) == F64Round(d.q, e, d.r # <<>>)

\* the quotient of the mantissas to 54 bits or more and whether it is exact
F64DivShift(x, y, s) == F64Quotient(BigDivMod(BigShl(x.m, s), y.m), x.e - y.e - s)

\* x / y: NaN for a NaN operand, for 0/0 and for inf/inf; an infinity for a
\* non-zero value divided by zero
F64Div(x, y) ==
  IF x.kind = "nan" \/ y.kind = "nan" THEN F64NaN
  ELSE IF x.kind = "inf"
  THEN (IF y.kind = "inf" THEN F64NaN ELSE F64Inf(x.neg # y.neg))
  ELSE IF y.kind = "inf" THEN F64Zero(x.neg # y.neg)
  ELSE IF y.m = <<>>
  THEN (IF x.m = <<>> THEN F64NaN ELSE F64Inf(x.neg # y.neg))
  ELSE IF x.m = <<>> THEN F64Zero(x.neg # y.neg)
  ELSE F64Finite(x.neg # y.neg,
                 F64DivShift(x, y, Max({0, MantissaBits + 1 + BigBitLen(y.m)
                                              - BigBitLen(x.m)})))

(***************************************************************************)
(* int: on the 64-bit builds an int is an int64, here a sign and a         *)
(* magnitude, since -2^63 and 2^63 - 1 are no integers of the checker.     *)
(***************************************************************************)
Int64(neg, mag) == [neg |-> neg /\ mag # <<>>, mag |-> mag]
Int64FromInt(n) == Int64(n < 0, BigFromInt(Abs(n)))
MinInt64 == Int64(TRUE, BigShl(<<1>>, 63))
MaxInt64 == Int64(FALSE, BigSub(BigShl(<<1>>, 63), <<1>>))

\* the value of an int that is an integer of the checker
Int64Value(n) == IF n.neg THEN -BigToInt(n.mag) ELSE BigToInt(n.mag)

\* The builds of the program: the value of runtime.GOARCH.
GoArchs == {"amd64", "arm64"}

\* int(x) for a float64 x that int64 cannot represent (NaN, an infinity, a
\* magnitude of 2^63 or more): the conversion succeeds and its result
\* depends on the implementation.  The amd64 instruction gives -2^63 for
\* each of them; the arm64 instruction gives 0 for NaN and saturates.
F64ToIntUnrepresentable(x, arch) ==
  IF arch = "amd64" THEN MinInt64
  ELSE IF x.kind = "nan" THEN Int64FromInt(0)
  ELSE IF x.neg THEN MinInt64 ELSE MaxInt64

\* the integer part of the magnitude of a finite x
F64Trunc(x) == IF x.e >= 0 THEN BigShl(x.m, x.e) ELSE BigShr(x.m, -x.e)

F64ToIntFinite(x, mag, arch) ==
  IF BigBitLen(mag) < 64 THEN Int64(x.neg, mag)
  ELSE IF x.neg /\ mag = MinInt64.mag THEN MinInt64
  ELSE F64ToIntUnrepresentable(x, arch)

\* int(x): the integer part, towards zero
F64ToInt(x, arch) ==
  IF x.kind = "finite" THEN F64ToIntFinite(x, F64Trunc(x), arch)
  ELSE F64ToIntUnrepresentable(x, arch)

\* make([]float32, n) panics (makeslice: len out of range) for a negative n
\* and for an n of more than 2^48 bytes, the size of the address space of
\* the heap.
MakeSlicePanics(n) == n.neg \/ BigLess(BigShl(<<1>>, 46), n.mag)

(***************************************************************************)
(* Audio normalizer (processWAVBytes, convertToMono, resample).  A sample  *)
(* is an exact rational <<numerator, denominator>> in lowest terms: the    *)
(* rounding of float32 sample values is not modelled.  The lengths and the *)
(* indices of resample are computed in float64 as the code computes them.  *)
(***************************************************************************)
RECURSIVE GCD(_, _)
GCD(a, b) == IF b = 0 THEN a ELSE GCD(b, a % b)

Rat(n, d) ==
  LET g == GCD(Abs(n), Abs(d))
      sg == IF d < 0 THEN -1 ELSE 1
  IN IF n = 0 THEN <<0, 1>> ELSE <<sg * (n \div g), sg * (d \div g)>>

\* Sums and products are formed over reduced denominators, so that no
\* intermediate value leaves the integers of the checker.
RatAdd(x, y) ==
  LET g == GCD(x[2], y[2])
  IN Rat(x[1] * (y[2] \div g) + y[1] * (x[2] \div g), (x[2] \div g) * y[2])
RatMul(x, y) ==
  LET a == Rat(x[1], y[2])
      b == Rat(y[1], x[2])
  IN Rat(a[1] * b[1], a[2] * b[2])
RatDivInt(x, k) == Rat(x[1], x[2] * k)
RatLeq(x, y) == x[1] * y[2] <= y[1] * x[2]

PCMFullScale == 32768
TargetSampleRate == 16000

\* The decoded WAV files given to TranscribeWAV: "valid" is
\* decoder.IsValidFile(), "decodeOk" is FullPCMBuffer returning no error,
\* "data" is buf.Data (interleaved integer PCM, each value in the range of
\* the file's bit depth "bitDepth").
LongWavSamples == 2720

WavInvalid ==
  [valid |-> FALSE, decodeOk |-> FALSE, numChannels |-> 0, sampleRate |-> 0,
   bitDepth |-> 16, data |-> <<>>]
WavTruncated ==
  [valid |-> TRUE, decodeOk |-> FALSE, numChannels |-> 1, sampleRate |-> 16000,
   bitDepth |-> 16, data |-> <<>>]
WavMono16k ==
  [valid |-> TRUE, decodeOk |-> TRUE, numChannels |-> 1, sampleRate |-> 16000,
   bitDepth |-> 16, data |-> <<16384, -32768, 32767>>]
WavStereo16k ==
  [valid |-> TRUE, decodeOk |-> TRUE, numChannels |-> 2, sampleRate |-> 16000,
   bitDepth |-> 16, data |-> <<100, 301, -200, 200>>]
WavMono8k ==
  [valid |-> TRUE, decodeOk |-> TRUE, numChannels |-> 1, sampleRate |-> 8000,
   bitDepth |-> 16, data |-> <<1000, -3000>>]
WavStereo32k ==
  [valid |-> TRUE, decodeOk |-> TRUE, numChannels |-> 2, sampleRate |-> 32000,
   bitDepth |-> 16, data |-> <<0, 0, 4000, 2000, -8000, 0, 100, 100>>]
WavSilence ==
  [valid |-> TRUE, decodeOk |-> TRUE, numChannels |-> 1, sampleRate |-> 16000,
   bitDepth |-> 16, data |-> [i \in 1..LongWavSamples |-> 0]]

WavMono44k ==
  [valid |-> TRUE, decodeOk |-> TRUE, numChannels |-> 1, sampleRate |-> 44100,
   bitDepth |-> 16, data |-> <<32767, -32768, 0, 12000, -5, 7, 300, -32768, 32767>>]
\* 7 / (4480 / 16000) is 25, and 24 in float64
WavMono4480 ==
  [valid |-> TRUE, decodeOk |-> TRUE, numChannels |-> 1, sampleRate |-> 4480,
   bitDepth |-> 16, data |-> <<0, 700, 1400, 2100, -2800, 3500, -4200>>]
WavThreeCh16k ==
  [valid |-> TRUE, decodeOk |-> TRUE, numChannels |-> 3, sampleRate |-> 16000,
   bitDepth |-> 16, data |-> <<3, 6, -30, 32767, 32767, 32767, 9>>]
WavMono24bit ==
  [valid |-> TRUE, decodeOk |-> TRUE, numChannels |-> 1, sampleRate |-> 16000,
   bitDepth |-> 24, data |-> <<8388607, -8388608, 16384>>]

\* A header whose sample rate is 0: IsValidFile does not look at the rate.
WavMono0Hz ==
  [valid |-> TRUE, decodeOk |-> TRUE, numChannels |-> 1, sampleRate |-> 0,
   bitDepth |-> 16, data |-> <<100, -100, 50>>]
WavEmpty0Hz ==
  [valid |-> TRUE, decodeOk |-> TRUE, numChannels |-> 1, sampleRate |-> 0,
   bitDepth |-> 16, data |-> <<>>]

WavNames == {"invalid", "truncated", "mono16k", "stereo16k", "mono8k",
             "stereo32k", "silence", "mono44k", "mono4480", "threeCh16k",
             "mono24bit", "mono0hz", "empty0hz"}

WavFiles ==
  [name \in WavNames |->
     CASE name = "invalid" -> WavInvalid
       [] name = "truncated" -> WavTruncated
       [] name = "mono16k" -> WavMono16k
       [] name = "stereo16k" -> WavStereo16k
       [] name = "mono8k" -> WavMono8k
       [] name = "stereo32k" -> WavStereo32k
       [] name = "mono44k" -> WavMono44k
       [] name = "mono4480" -> WavMono4480
       [] name = "threeCh16k" -> WavThreeCh16k
       [] name = "mono24bit" -> WavMono24bit
       [] name = "mono0hz" -> WavMono0Hz
       [] name = "empty0hz" -> WavEmpty0Hz
       [] OTHER -> WavSilence]

\* sum of samples[from+1 .. from+count] (0-based offset "from")
RECURSIVE SumChannels(_, _, _)
SumChannels(smp, from, count) ==
  IF count = 0 THEN <<0, 1>>
  ELSE RatAdd(smp[from + count], SumChannels(smp, from, count - 1))

convertToMonoFirstChannel(smp, numChannels) ==
  LET numSamples == Len(smp) \div numChannels
  IN [j \in 1..numSamples |-> smp[(j - 1) * numChannels + 1]]

convertToMono(smp, numChannels) ==
  LET numSamples == Len(smp) \div numChannels
  IN [j \in 1..numSamples |->
        RatDivInt(SumChannels(smp, (j - 1) * numChannels, numChannels), numChannels)]

resampleKeepLength(input, fromRate, toRate, arch) ==
  IF fromRate = toRate THEN input
  ELSE LET targetLength == Len(input)
       IN [j \in 1..targetLength |->
             LET i == j - 1
                 index == (i * fromRate) \div toRate
                 frac == Rat((i * fromRate) % toRate, toRate)
                 low == IF index >= Len(input) THEN Len(input) - 1 ELSE index
                 high == IF index + 1 >= Len(input) THEN Len(input) - 1 ELSE index + 1
             IN RatAdd(RatMul(RatAdd(<<1, 1>>, RatMul(<<-1, 1>>, frac)), input[low + 1]),
                       RatMul(frac, input[high + 1]))]

\* ratio := float64(fromRate) / float64(toRate)
resampleRatio(fromRate, toRate) == F64Div(F64FromInt(fromRate), F64FromInt(toRate))

\* targetLength := int(float64(len(input)) / ratio), an int64
resampleTargetLength(inputLen, fromRate, toRate, arch) ==
  F64ToInt(F64Div(F64FromInt(inputLen), resampleRatio(fromRate, toRate)), arch)

\* pos := float64(i) * ratio
resamplePos(i, ratio) == F64Mul(F64FromInt(i), ratio)

\* index := int(pos), an int64
resampleIndex(i, fromRate, toRate, arch) ==
  F64ToInt(resamplePos(i, resampleRatio(fromRate, toRate)), arch)

\* frac := float32(pos - float64(index)), up to the rounding of pos and of
\* float32: the exact fraction of i * fromRate / toRate when index is its
\* integer part, and 1 when pos was rounded to just below the next integer
\* (index is then one less and pos - index rounds to 1 in float32).
resampleFrac(i, index, fromRate, toRate) == Rat(i * fromRate - index * toRate, toRate)

resampleHighUnclamped(index, inputLen) == index + 1

\* high := index + 1, clamped to the last sample
resampleHigh(index, inputLen) ==
  IF index + 1 >= inputLen THEN inputLen - 1 ELSE index + 1

\* output[i] = (1-frac)*input[low] + frac*input[high]
resampleBlend(input, low, high, frac) ==
  RatAdd(RatMul(RatAdd(<<1, 1>>, RatMul(<<-1, 1>>, frac)), input[low + 1]),
         RatMul(frac, input[high + 1]))

\* every read of the call is inside 0..len(input)-1
resampleInRange(low, inputLen) ==
  \A j \in 1..Len(low) :
    /\ low[j] \in 0..(inputLen - 1)
    /\ resampleHigh(low[j], inputLen) \in 0..(inputLen - 1)

\* One call of resample and what it did: arch is the build, targetLength the
\* int64 of that name (the length of the input when the rates are equal and
\* it is not computed), element j of low and high the two indices read for
\* output index j - 1.  makePanic: make panicked on targetLength; panic: a
\* read outside 0..len(input)-1 panicked (index out of range).  There is no
\* output after a panic.
resampleOutput(input, fromRate, toRate, arch, low, inRange) ==
  [input |-> input, fromRate |-> fromRate, toRate |-> toRate, arch |-> arch,
   targetLength |-> Int64FromInt(Len(low)), low |-> low,
   high |-> [j \in 1..Len(low) |-> resampleHigh(low[j], Len(input))],
   output |-> IF inRange
              THEN [j \in 1..Len(low) |->
                      resampleBlend(input, low[j], resampleHigh(low[j], Len(input)),
                                    resampleFrac(j - 1, low[j], fromRate, toRate))]
              ELSE <<>>,
   makePanic |-> FALSE, panic |-> ~inRange, called |-> TRUE]

resampleReads(input, fromRate, toRate, arch, low) ==
  resampleOutput(input, fromRate, toRate, arch, low, resampleInRange(low, Len(input)))

\* the loop over the targetLength output indices
resampleLoop(input, fromRate, toRate, arch, targetLength) ==
  resampleReads(input, fromRate, toRate, arch,
                [j \in 1..targetLength |->
                   Int64Value(resampleIndex(j - 1, fromRate, toRate, arch))])

\* output := make([]float32, targetLength), then the loop
resampleMake(input, fromRate, toRate, arch, targetLength) ==
  IF MakeSlicePanics(targetLength)
  THEN [input |-> input, fromRate |-> fromRate, toRate |-> toRate, arch |-> arch,
        targetLength |-> targetLength, low |-> <<>>, high |-> <<>>,
        output |-> <<>>, makePanic |-> TRUE, panic |-> FALSE, called |-> TRUE]
  ELSE resampleLoop(input, fromRate, toRate, arch, Int64Value(targetLength))

resampleRun(input, fromRate, toRate, arch) ==
  IF fromRate = toRate
  THEN [input |-> input, fromRate |-> fromRate, toRate |-> toRate, arch |-> arch,
        targetLength |-> Int64FromInt(Len(input)), low |-> <<>>, high |-> <<>>,
        output |-> input, makePanic |-> FALSE, panic |-> FALSE, called |-> TRUE]
  ELSE resampleMake(input, fromRate, toRate, arch,
                    resampleTargetLength(Len(input), fromRate, toRate, arch))

\* resample: the output of the call
resample(input, fromRate, toRate, arch) == resampleRun(input, fromRate, toRate, arch).output

\* the call panics
resamplePanicked(run) == run.makePanic \/ run.panic
resamplePanics(input, fromRate, toRate, arch) ==
  resamplePanicked(resampleRun(input, fromRate, toRate, arch))

\* processWAVBytes returns samples and a nil error, or an error, or it does
\* not return: panic is a panic of resample.
processWAVBytesScale32767(w, arch) ==
  IF ~w.valid THEN [err |-> <<"invalid WAV file">>, samples |-> <<>>, panic |-> FALSE]
  ELSE IF ~w.decodeOk
  THEN [err |-> <<"error decoding WAV", "io">>, samples |-> <<>>, panic |-> FALSE]
  ELSE LET rawSamples == [j \in 1..Len(w.data) |-> Rat(w.data[j], PCMFullScale - 1)]
           monoSamples == IF w.numChannels > 1
                          THEN convertToMono(rawSamples, w.numChannels)
                          ELSE rawSamples
       IN [err |-> <<>>,
           samples |-> IF w.sampleRate # TargetSampleRate
                       THEN resample(monoSamples, w.sampleRate, TargetSampleRate, arch)
                       ELSE monoSamples,
           panic |-> /\ w.sampleRate # TargetSampleRate
                     /\ resamplePanics(monoSamples, w.sampleRate, TargetSampleRate, arch)]

processWAVBytes(w, arch) ==
  IF ~w.valid THEN [err |-> <<"invalid WAV file">>, samples |-> <<>>, panic |-> FALSE]
  ELSE IF ~w.decodeOk
  THEN [err |-> <<"error decoding WAV", "io">>, samples |-> <<>>, panic |-> FALSE]
  ELSE LET rawSamples == [j \in 1..Len(w.data) |-> Rat(w.data[j], PCMFullScale)]
           monoSamples == IF w.numChannels > 1
                          THEN convertToMono(rawSamples, w.numChannels)
                          ELSE rawSamples
       IN [err |-> <<>>,
           samples |-> IF w.sampleRate # TargetSampleRate
                       THEN resample(monoSamples, w.sampleRate, TargetSampleRate, arch)
                       ELSE monoSamples,
           panic |-> /\ w.sampleRate # TargetSampleRate
                     /\ resamplePanics(monoSamples, w.sampleRate, TargetSampleRate, arch)]

(***************************************************************************)
(* Parakeet model constants                                                *)
(***************************************************************************)
parakeetSubsamplingFactor == 8
parakeetDecoderHiddenSize == 640
parakeetEncoderHiddenSize == 1024
parakeetNumMelBins == 128
parakeetHopLength == 160
parakeetNumDurations == 5

(***************************************************************************)
(* Inputs of the pipeline                                                  *)
(***************************************************************************)
MaxLogit == 1
MaxStateVal == 1

\* Vocabulary files, as their lines.
VocabHello ==
  << <<Marker, "h", "e", "l", "l", "o", Space, "0">>,
     <<Marker, "w", "o", "r", "l", "d", Space, "1">>,
     <<"<", "b", "l", "k", ">", Space, "2">> >>
VocabBlankFirst ==
  << <<"<", "b", "l", "k", ">", Space, "0">>,
     <<"a", Marker, Tab, "1">>,
     <<Marker, Space, "2">> >>
VocabNoBlank ==
  << <<"a">>, <<Marker, "b">>, <<"c">> >>
VocabGap ==
  << <<"a", Space, "0">>, <<>>, <<"<", "b", "l", "k", ">", Space, "1">> >>
VocabEmpty == <<>>

VocabTables == {VocabHello, VocabBlankFirst, VocabNoBlank, VocabGap, VocabEmpty}

\* A valid length reported by a session for a time axis pre-sized to n.
ReportedLens(n) == {n} \cup (IF n > 0 THEN {n - 1} ELSE {})

\* The 5 duration-class scores: all below every vocabulary logit, or all
\* above every vocabulary logit with the maximum at duration class 1.
DurationScores ==
  {[i \in 1..parakeetNumDurations |-> 0],
   [i \in 1..parakeetNumDurations |-> IF i = 2 THEN MaxLogit + 2 ELSE MaxLogit + 1]}

\* The logits a decoder-joint call may return for a vocabulary of size V.
LogitVectors(V) ==
  {v \o d : v \in [1..V -> 0..MaxLogit], d \in DurationScores}

DecoderStateSize == 2 * 1 * parakeetDecoderHiddenSize

\* The recurrent states <<output_states_1, output_states_2>> a decoder-joint
\* call may return.
ReturnedStates ==
  {<<ConstTensor(DecoderStateSize, v), ConstTensor(DecoderStateSize, MaxStateVal - v)>> :
     v \in 0..MaxStateVal}

PreprocessorFailures ==
  {"error creating waveforms tensor", "error creating waveforms_lens tensor",
   "error creating features tensor", "error creating features_lens tensor",
   "error creating preprocessor session", "error running preprocessor"}
EncoderFailures ==
  {"error creating audio_signal tensor", "error creating length tensor",
   "error creating encoder output tensor", "error creating encoder lengths tensor",
   "error creating encoder session", "error running encoder"}
DecoderFailures ==
  {"error creating encoder_outputs tensor", "error creating targets tensor",
   "error creating target_length tensor", "error creating input_states_1 tensor",
   "error creating input_states_2 tensor", "error creating outputs tensor",
   "error creating output_states_1 tensor", "error creating output_states_2 tensor",
   "error creating decoder session", "error running decoder"}

\* One step of a stage function: the message of its error return, the native
\* handle it creates ("" for session.Run, which creates none) and the handle
\* whose Destroy the statement after it defers ("" when nothing is deferred).
StageStep(fail, handle, deferDestroy) ==
  [fail |-> fail, handle |-> handle, deferDestroy |-> deferDestroy]

\* The steps of a stage function in the order of the code: the tensors, then
\* the session, then Run.
PreprocessorSteps ==
  <<StageStep("error creating waveforms tensor", "waveformsTensor", "waveformsTensor"),
    StageStep("error creating waveforms_lens tensor", "waveformsLensTensor",
              "waveformsLensTensor"),
    StageStep("error creating features tensor", "featTensor", "featTensor"),
    StageStep("error creating features_lens tensor", "featLensTensor", "featLensTensor"),
    StageStep("error creating preprocessor session", "session", "session"),
    StageStep("error running preprocessor", "", "")>>
EncoderSteps ==
  <<StageStep("error creating audio_signal tensor", "audioSignalTensor",
              "audioSignalTensor"),
    StageStep("error creating length tensor", "lengthTensor", "lengthTensor"),
    StageStep("error creating encoder output tensor", "encOutTensor", "encOutTensor"),
    StageStep("error creating encoder lengths tensor", "encLensTensor", "encLensTensor"),
    StageStep("error creating encoder session", "session", "session"),
    StageStep("error running encoder", "", "")>>
DecoderSteps ==
  <<StageStep("error creating encoder_outputs tensor", "encOutTensor", "encOutTensor"),
    StageStep("error creating targets tensor", "targetsTensor", "targetsTensor"),
    StageStep("error creating target_length tensor", "targetLenTensor",
              "targetLenTensor"),
    StageStep("error creating input_states_1 tensor", "state1Tensor", "state1Tensor"),
    StageStep("error creating input_states_2 tensor", "state2Tensor", "state2Tensor"),
    StageStep("error creating outputs tensor", "logitsTensor", "logitsTensor"),
    StageStep("error creating output_states_1 tensor", "outState1Tensor",
              "outState1Tensor"),
    StageStep("error creating output_states_2 tensor", "outState2Tensor",
              "outState2Tensor"),
    StageStep("error creating decoder session", "session", "session"),
    StageStep("error running decoder", "", "")>>

\* The position of the failing step, past the end when nothing fails.
StepIndex(steps, failure) ==
  IF failure = "none" THEN Len(steps) + 1
  ELSE CHOOSE i \in 1..Len(steps) : steps[i].fail = failure

\* ort.NewAdvancedSession is the step before Run.
SessionsCreated(steps, failure) ==
  IF StepIndex(steps, failure) >= Len(steps) THEN 1 ELSE 0

\* A stage function that has just been entered: no handle of its own is
\* alive and no call is deferred.
NewFrame ==
  [live |-> {}, deferred |-> <<>>, created |-> 0, destroyed |-> 0, destroyedDead |-> 0]

\* The step st has succeeded: its handle is alive, and the Destroy deferred
\* after it is pushed on the deferred calls, which run last in, first out.
StepDone(frame, st) ==
  [frame EXCEPT
     !.live = IF st.handle = "" THEN @ ELSE @ \cup {st.handle},
     !.created = IF st.handle = "" THEN @ ELSE @ + 1,
     !.deferred = IF st.deferDestroy = "" THEN @ ELSE <<st.deferDestroy>> \o @]

\* The body of a stage function from step i on: the steps run in order until
\* one returns its error (the given failure) or the last has succeeded.
RECURSIVE StageBody(_, _, _, _)
StageBody(steps, failure, i, frame) ==
  IF i > Len(steps) \/ steps[i].fail = failure
  THEN frame
  ELSE StageBody(steps, failure, i + 1, StepDone(frame, steps[i]))

\* x.Destroy(): a live handle is released; a handle that is not alive any
\* more is destroyed a second time.
Destroy(frame, handle) ==
  IF handle \in frame.live
  THEN [frame EXCEPT !.live = @ \ {handle}, !.destroyed = @ + 1]
  ELSE [frame EXCEPT !.destroyedDead = @ + 1]

\* A function that released its handles by calls placed before its last
\* return, not by deferred calls, would run them on the successful path only.
DeferredAtReturnOnSuccess(deferred, failure) ==
  IF failure = "none" THEN deferred ELSE <<>>

\* The deferred calls that run when the function returns after the given
\* failure ("none" on success): every deferred call, on whatever path.
DeferredAtReturn(deferred, failure) == deferred

\* The deferred Destroy calls run in the order of the sequence.
RECURSIVE RunDeferred(_, _)
RunDeferred(frame, deferred) ==
  IF deferred = <<>> THEN frame
  ELSE RunDeferred(Destroy(frame, Head(deferred)), Tail(deferred))

\* The frame of a stage function when it has returned.
StageReturned(frame, failure) ==
  RunDeferred(frame, DeferredAtReturn(frame.deferred, failure))

\* A stage function run up to the given failure.
StageRun(steps, failure) ==
  StageReturned(StageBody(steps, failure, 1, NewFrame), failure)

NoHandles ==
  [created |-> 0, destroyed |-> 0, live |-> 0, destroyedDead |-> 0,
   sessions |-> [m \in {"preprocessor", "encoder", "decoder"} |-> 0]]

\* The handle accounting after a stage function has returned with frame:
\* the handles it left alive stay alive.
StageAccounted(o, model, frame, sessions) ==
  [created |-> o.created + frame.created,
   destroyed |-> o.destroyed + frame.destroyed,
   live |-> o.live + Cardinality(frame.live),
   destroyedDead |-> o.destroyedDead + frame.destroyedDead,
   sessions |-> [o.sessions EXCEPT ![model] = @ + sessions]]

\* The handle accounting after a stage function ran up to the given failure.
RunStage(o, model, steps, failure) ==
  StageAccounted(o, model, StageRun(steps, failure), SessionsCreated(steps, failure))

\* The context a failing stage's error is wrapped in (fmt.Errorf "...: %w").
StageTag(stage) ==
  CASE stage = "normalizer" -> "error processing WAV data"
    [] stage = "preprocessor" -> "preprocessor error"
    [] stage = "encoder" -> "encoder error"
    [] OTHER -> "decoder error"

WrapStageAsPreprocessor(stage, e) == <<"preprocessor error">> \o e

WrapStage(stage, e) == <<StageTag(stage)>> \o e

\* The guard at the top of Transcribe: len(p.vocab) == 0
VocabMissing(v) == Len(v) = 0

\* The text Transcribe returns next to a non-nil error: return "", err.
TranscribeErrorTextPartial(tokens) == Detokenize(tokens)

TranscribeErrorText(tokens) == <<>>

ErrVocabNotLoaded == <<"vocabulary not loaded, call LoadVocabulary first">>
NoCall == [audioSignalShape |-> <<>>, length |-> 0, outputShape |-> <<>>]
NoStep == [t |-> -1, logits |-> <<>>, newState1 |-> NoTensor,
           newState2 |-> NoTensor, bestToken |-> -1]

(***************************************************************************)
(* ParakeetModel.LoadVocabulary as an operation                            *)
(***************************************************************************)
LoadOutcomes == {"ok", "openErr", "readErr"}

TLoadVocabulary ==
  /\ tPc = "idle"
  /\ \E lines \in VocabTables, outcome \in LoadOutcomes : \E k \in 0..Len(lines) :
       LET r == LoadVocabularyResult([vocab |-> vocab, blankIdx |-> blankIdx],
                                     lines, outcome, k)
       IN /\ vocab' = r.vocab
          /\ blankIdx' = r.blankIdx
          /\ vocabLoaded' = (vocabLoaded \/ r.err = <<>>)
  /\ UNCHANGED <<tPc, wavData, stages, samples, features, featuresLen, encCall,
                 encoderOut, encoderLen, t, transcribedTokens, lastEmittedToken,
                 lastToken, state1, state2, step, calls, ort, result, err>>
  /\ UNCHANGED <<engineVars, componentVars>>

(***************************************************************************)
(* Instance.TranscribeWAV and ParakeetModel.Transcribe                     *)
(***************************************************************************)
\* TranscribeWAV after processWAVBytes has ended with r: a panic ends the
\* process, an error is wrapped and returned, else Transcribe is entered.
TNormalized(name, r) ==
  /\ wavData' = name
  /\ stages' = <<"normalizer">>
  /\ IF r.panic
     THEN /\ tPc' = "panicked"
          /\ UNCHANGED <<samples, err, result>>
     ELSE IF r.err # <<>>
     THEN /\ err' = WrapStage("normalizer", r.err)
          /\ result' = <<>>
          /\ tPc' = "done"
          /\ UNCHANGED samples
     ELSE /\ samples' = r.samples
          /\ tPc' = "transcribe"
          /\ UNCHANGED <<err, result>>

\* TranscribeWAV: processWAVBytes on a WAV file, in one of the builds.
TNormalize ==
  /\ tPc = "idle"
  /\ \E name \in WavNames, arch \in GoArchs :
       TNormalized(name, processWAVBytes(WavFiles[name], arch))
  /\ UNCHANGED <<vocab, blankIdx, vocabLoaded, features, featuresLen, encCall,
                 encoderOut, encoderLen, t, transcribedTokens, lastEmittedToken,
                 lastToken, state1, state2, step, calls, ort>>
  /\ UNCHANGED <<engineVars, componentVars>>

\* Transcribe: the vocabulary check, then runPreprocessor.  The samples are
\* not used after runPreprocessor and are dropped from the state there.
TPreprocess ==
  /\ tPc = "transcribe"
  /\ samples' = <<>>
  /\ IF VocabMissing(vocab)
     THEN /\ err' = ErrVocabNotLoaded
          /\ result' = TranscribeErrorText(transcribedTokens)
          /\ tPc' = "done"
          /\ UNCHANGED <<stages, features, featuresLen, ort>>
     ELSE /\ stages' = Append(stages, "preprocessor")
          /\ \E failure \in PreprocessorFailures \cup {"none"} :
               LET samplesLen == Len(samples)
                   expectedTimeSteps == (samplesLen \div parakeetHopLength) + 1
               IN /\ ort' = RunStage(ort, "preprocessor", PreprocessorSteps, failure)
                  /\ IF failure # "none"
                     THEN /\ err' = WrapStage("preprocessor", <<failure, "ort">>)
                          /\ result' = TranscribeErrorText(transcribedTokens)
                          /\ tPc' = "done"
                          /\ UNCHANGED <<features, featuresLen>>
                     ELSE /\ features' =
                               ConstTensor(1 * parakeetNumMelBins * expectedTimeSteps, 0)
                          /\ featuresLen' \in ReportedLens(expectedTimeSteps)
                          /\ tPc' = "encoder"
                          /\ UNCHANGED <<err, result>>
  /\ UNCHANGED <<vocab, blankIdx, vocabLoaded, wavData, encCall, encoderOut, encoderLen, t,
                 transcribedTokens, lastEmittedToken, lastToken, state1, state2,
                 step, calls>>
  /\ UNCHANGED <<engineVars, componentVars>>

\* Transcribe: runEncoder.
TEncode ==
  /\ tPc = "encoder"
  /\ stages' = Append(stages, "encoder")
  /\ \E failure \in EncoderFailures \cup {"none"} :
       LET timeSteps == TensorLen(features) \div parakeetNumMelBins
           encoderTimeSteps ==
             (featuresLen + parakeetSubsamplingFactor - 1) \div parakeetSubsamplingFactor
           call == [audioSignalShape |-> <<1, parakeetNumMelBins, timeSteps>>,
                    length |-> featuresLen,
                    outputShape |-> <<1, parakeetEncoderHiddenSize, encoderTimeSteps>>]
       IN /\ ort' = RunStage(ort, "encoder", EncoderSteps, failure)
          /\ IF failure # "none"
             THEN /\ err' = WrapStage("encoder", <<failure, "ort">>)
                  /\ result' = TranscribeErrorText(transcribedTokens)
                  /\ tPc' = "done"
                  /\ encCall' = IF failure = "error running encoder" THEN call ELSE encCall
                  /\ UNCHANGED <<encoderOut, encoderLen>>
             ELSE /\ encCall' = call
                  /\ encoderOut' =
                       RampTensor(1 * parakeetEncoderHiddenSize * encoderTimeSteps)
                  /\ encoderLen' \in ReportedLens(encoderTimeSteps)
                  /\ tPc' = "decoder"
                  /\ UNCHANGED <<err, result>>
  /\ UNCHANGED <<vocab, blankIdx, vocabLoaded, wavData, samples, features, featuresLen, t,
                 transcribedTokens, lastEmittedToken, lastToken, state1, state2,
                 step, calls>>
  /\ UNCHANGED <<engineVars, componentVars>>

(***************************************************************************)
(* ParakeetModel.runDecoder                                                *)
(***************************************************************************)
\* The slice of the encoder output handed to decoder step tt (0-based k).
StepData(encOut, encLen, tt) ==
  [k \in 0..(parakeetEncoderHiddenSize - 1) |->
     LET idx == k * encLen + tt
     IN IF idx < TensorLen(encOut) THEN TensorAt(encOut, idx) ELSE 0]

\* "for t := range encoderLen": the step after t, whatever the logits.
NextStepByDuration(tt, logits) ==
  tt + 1 + argmax(SubSeq(logits, Len(logits) - parakeetNumDurations + 1, Len(logits)))

NextStep(tt, logits) == tt + 1

\* logits[:vocabSize]
VocabLogits(logits, vocabSize) == SubSeq(logits, 1, vocabSize)

\* The locals of runDecoder that the emission policy reads and writes.
DecoderLocals ==
  [tokens |-> transcribedTokens, lastToken |-> lastToken,
   lastEmittedToken |-> lastEmittedToken, state1 |-> state1, state2 |-> state2]

RunDecoderPolicyKeepState(d, bestToken, newState1, newState2) ==
  IF bestToken # blankIdx /\ bestToken # d.lastEmittedToken
  THEN [d EXCEPT !.tokens = Append(d.tokens, vocab[bestToken + 1]),
                 !.lastToken = bestToken,
                 !.lastEmittedToken = bestToken]
  ELSE IF bestToken = blankIdx
       THEN [d EXCEPT !.lastEmittedToken = -1]
       ELSE d

RunDecoderPolicyBlankAdvances(d, bestToken, newState1, newState2) ==
  IF bestToken # blankIdx /\ bestToken # d.lastEmittedToken
  THEN [d EXCEPT !.tokens = Append(d.tokens, vocab[bestToken + 1]),
                 !.lastToken = bestToken,
                 !.lastEmittedToken = bestToken,
                 !.state1 = newState1,
                 !.state2 = newState2]
  ELSE IF bestToken = blankIdx
       THEN [d EXCEPT !.lastEmittedToken = -1,
                      !.state1 = newState1,
                      !.state2 = newState2]
       ELSE d

RunDecoderPolicyRepeatAdvances(d, bestToken, newState1, newState2) ==
  IF bestToken # blankIdx /\ bestToken # d.lastEmittedToken
  THEN [d EXCEPT !.tokens = Append(d.tokens, vocab[bestToken + 1]),
                 !.lastToken = bestToken,
                 !.lastEmittedToken = bestToken,
                 !.state1 = newState1,
                 !.state2 = newState2]
  ELSE IF bestToken = blankIdx
       THEN [d EXCEPT !.lastEmittedToken = -1]
       ELSE [d EXCEPT !.state1 = newState1,
                      !.state2 = newState2]

RunDecoderPolicyEmitBlank(d, bestToken, newState1, newState2) ==
  IF bestToken # d.lastEmittedToken
  THEN [d EXCEPT !.tokens = Append(d.tokens, vocab[bestToken + 1]),
                 !.lastToken = bestToken,
                 !.lastEmittedToken = bestToken,
                 !.state1 = newState1,
                 !.state2 = newState2]
  ELSE d

RunDecoderPolicyNoDedup(d, bestToken, newState1, newState2) ==
  IF bestToken # blankIdx
  THEN [d EXCEPT !.tokens = Append(d.tokens, vocab[bestToken + 1]),
                 !.lastToken = bestToken,
                 !.lastEmittedToken = bestToken,
                 !.state1 = newState1,
                 !.state2 = newState2]
  ELSE [d EXCEPT !.lastEmittedToken = -1]

\* The if / else-if at the end of the loop body.
RunDecoderPolicy(d, bestToken, newState1, newState2) ==
  IF bestToken # blankIdx /\ bestToken # d.lastEmittedToken
  THEN [d EXCEPT !.tokens = Append(d.tokens, vocab[bestToken + 1]),
                 !.lastToken = bestToken,
                 !.lastEmittedToken = bestToken,
                 !.state1 = newState1,
                 !.state2 = newState2]
  ELSE IF bestToken = blankIdx
       THEN [d EXCEPT !.lastEmittedToken = -1]
       ELSE d

\* Transcribe calls runDecoder: the locals are initialised.
TDecodeStart ==
  /\ tPc = "decoder"
  /\ stages' = Append(stages, "decoder")
  /\ transcribedTokens' = <<>>
  /\ lastEmittedToken' = -1
  /\ state1' = ConstTensor(DecoderStateSize, 0)
  /\ state2' = ConstTensor(DecoderStateSize, 0)
  /\ lastToken' = blankIdx
  /\ t' = 0
  /\ tPc' = "decoding"
  /\ UNCHANGED <<vocab, blankIdx, vocabLoaded, wavData, samples, features, featuresLen,
                 encCall, encoderOut, encoderLen, step, calls, ort, result, err>>
  /\ UNCHANGED <<engineVars, componentVars>>

\* One iteration of "for t := range encoderLen": slice, decoderStep,
\* argmax over the vocabulary logits, emission policy.  The slice is
\* StepData(encoderOut, encoderLen, t); the session's answer does not depend
\* on it here, so it is not kept in the state.  When decoderStep fails,
\* runDecoder returns and its other locals go out of scope.
TDecodeStep ==
  /\ tPc = "decoding"
  /\ t < encoderLen
  /\ \E failure \in DecoderFailures \cup {"none"} :
       LET call(best) == [t |-> t, target |-> lastToken, state1 |-> state1,
                          state2 |-> state2, lastEmittedToken |-> lastEmittedToken,
                          bestToken |-> best,
                          emitted |-> Len(transcribedTokens)]
       IN /\ ort' = RunStage(ort, "decoder", DecoderSteps, failure)
          /\ IF failure # "none"
             THEN /\ err' = WrapStage("decoder", <<"decoder step error", failure, "ort">>)
                  /\ result' = TranscribeErrorText(transcribedTokens)
                  /\ tPc' = "done"
                  /\ calls' = IF failure = "error running decoder"
                              THEN Append(calls, call(-1)) ELSE calls
                  /\ lastEmittedToken' = -1
                  /\ lastToken' = 0
                  /\ state1' = NoTensor
                  /\ state2' = NoTensor
                  /\ step' = NoStep
                  /\ UNCHANGED <<t, transcribedTokens>>
             ELSE \E logits \in LogitVectors(Len(vocab)), newStates \in ReturnedStates :
                    LET newState1 == newStates[1]
                        newState2 == newStates[2]
                        vocabSize == Len(vocab)
                        vocabLogits == VocabLogits(logits, vocabSize)
                        bestToken == argmax(vocabLogits)
                        d == RunDecoderPolicy(DecoderLocals, bestToken, newState1, newState2)
                    IN /\ calls' = Append(calls, call(bestToken))
                       /\ step' = [t |-> t, logits |-> logits,
                                   newState1 |-> newState1, newState2 |-> newState2,
                                   bestToken |-> bestToken]
                       /\ transcribedTokens' = d.tokens
                       /\ lastToken' = d.lastToken
                       /\ lastEmittedToken' = d.lastEmittedToken
                       /\ state1' = d.state1
                       /\ state2' = d.state2
                       /\ t' = NextStep(t, logits)
                       /\ UNCHANGED <<err, result, tPc>>
  /\ UNCHANGED <<vocab, blankIdx, vocabLoaded, wavData, stages, samples, features,
                 featuresLen, encCall, encoderOut, encoderLen>>
  /\ UNCHANGED <<engineVars, componentVars>>

\* The loop is over: detokenization, and Transcribe returns the text.
TDecodeFinish ==
  /\ tPc = "decoding"
  /\ ~(t < encoderLen)
  /\ result' = Detokenize(transcribedTokens)
  /\ err' = <<>>
  /\ tPc' = "done"
  /\ UNCHANGED <<vocab, blankIdx, vocabLoaded, wavData, stages, samples, features,
                 featuresLen, encCall, encoderOut, encoderLen, t, transcribedTokens,
                 lastEmittedToken, lastToken, state1, state2, step, calls, ort>>
  /\ UNCHANGED <<engineVars, componentVars>>

(***************************************************************************)
(* Specification of the transcription pipeline                             *)
(***************************************************************************)
NoLoad == [seq |-> 0, lines |-> <<>>, err |-> <<>>, okLines |-> <<"none">>]
NoResample == [input |-> <<>>, fromRate |-> 0, toRate |-> 0, arch |-> "amd64",
               targetLength |-> Int64FromInt(0), low |-> <<>>, high |-> <<>>,
               output |-> <<>>, makePanic |-> FALSE, panic |-> FALSE,
               called |-> FALSE]

ComponentIdle ==
  /\ lastLoad = NoLoad
  /\ resampleCall = NoResample
  /\ historyPanic = FALSE
  /\ statusMu = [writer |-> 0, readers |-> {}]
  /\ statusThreads = <<>>
  /\ statusProduced = {}

PipelineIdle ==
  /\ vocab = <<>>
  /\ blankIdx = 0
  /\ vocabLoaded = FALSE
  /\ tPc = "idle"
  /\ wavData = "none"
  /\ stages = <<>>
  /\ samples = <<>>
  /\ features = NoTensor
  /\ featuresLen = 0
  /\ encCall = NoCall
  /\ encoderOut = NoTensor
  /\ encoderLen = 0
  /\ t = 0
  /\ transcribedTokens = <<>>
  /\ lastEmittedToken = -1
  /\ lastToken = 0
  /\ state1 = NoTensor
  /\ state2 = NoTensor
  /\ step = NoStep
  /\ calls = <<>>
  /\ ort = NoHandles
  /\ result = <<>>
  /\ err = <<>>

EngineIdle ==
  /\ statusCurrent = StatusUnloaded
  /\ statusPrevious = StatusUnknown
  /\ history = <<>>
  /\ historyLimit = 1
  /\ nextID = 1
  /\ isRecording = FALSE
  /\ recData = <<>>
  /\ device = "nil"
  /\ uiPc = "idle"
  /\ uiClicks = 0
  /\ lmPc = "start"
  /\ ppEnabled = FALSE
  /\ procs = <<>>
  /\ mainPc = "running"

InitPipeline == EngineIdle /\ PipelineIdle /\ ComponentIdle

NextPipeline ==
  \/ TLoadVocabulary
  \/ TNormalize
  \/ TPreprocess
  \/ TEncode
  \/ TDecodeStart
  \/ TDecodeStep
  \/ TDecodeFinish

SpecPipeline == InitPipeline /\ [][NextPipeline]_vars

(***************************************************************************)
(* The process: run in cmd, its deferred Engine.Shutdown, and the end of   *)
(* the process                                                             *)
(***************************************************************************)
\* The goroutines of the process run: main has not returned and no
\* goroutine has panicked.
Running == mainPc # "exited" /\ ~historyPanic

(***************************************************************************)
(* record.Recorder                                                         *)
(***************************************************************************)
\* Recorder.Start under r.mu; outcome is what the capture device does:
\* "ok", "initErr" (malgo.InitDevice fails), "startErr" (device.Start fails).
\* The result is the returned error being nil.
RecorderStart(outcome) ==
  IF isRecording
  THEN UNCHANGED <<isRecording, recData, device>>
  ELSE /\ recData' = <<>>
       /\ isRecording' = TRUE
       /\ device' = CASE outcome = "ok" -> "started"
                      [] outcome = "initErr" -> "nil"
                      [] OTHER -> "inited"

RecorderStartOk(outcome) == ~isRecording /\ outcome = "ok"

\* Recorder.Stop, under r.mu: the flag is cleared.
RecorderStopFlag ==
  /\ isRecording' = FALSE
  /\ UNCHANGED <<recData, device>>

\* Recorder.Stop, after r.mu is released: the device, if any, is stopped and
\* uninitialized.
RecorderStopDevice ==
  /\ device' = IF device # "nil" THEN "stopped" ELSE device
  /\ UNCHANGED <<isRecording, recData>>

\* The onData capture callback of a started device: under r.mu it appends
\* the captured chunk when isRecording is set, and drops it otherwise.
OnData ==
  /\ Running
  /\ device = "started"
  /\ isRecording => Len(recData) < MaxData
  /\ recData' = IF isRecording THEN Append(recData, Len(recData) + 1) ELSE recData
  /\ UNCHANGED <<statusCurrent, statusPrevious, history, historyLimit, nextID,
                 isRecording, device, uiPc, uiClicks, lmPc, ppEnabled, procs, mainPc>>
  /\ UNCHANGED <<pipelineVars, componentVars>>

(***************************************************************************)
(* engine.Engine.LoadModels, run by loadModelsAsync                        *)
(***************************************************************************)
LMSetLoading ==
  /\ Running
  /\ lmPc = "start"
  /\ SetStatus(StatusLoading)
  /\ lmPc' = "check"
  /\ UNCHANGED <<history, historyLimit, nextID, isRecording, recData, device,
                 uiPc, uiClicks, ppEnabled, procs, mainPc>>
  /\ UNCHANGED <<pipelineVars, componentVars>>

\* CheckModels, then DownloadModels when a file is missing; when the download
\* fails SetStatus(StatusUnloaded) follows.
LMDownload ==
  /\ Running
  /\ lmPc = "check"
  /\ \E allExist \in BOOLEAN, downloadOk \in BOOLEAN :
       lmPc' = IF allExist \/ downloadOk THEN "load" ELSE "setUnloaded"
  /\ UNCHANGED <<statusCurrent, statusPrevious, history, historyLimit, nextID, isRecording, recData, device,
                 uiPc, uiClicks, ppEnabled, procs, mainPc>>
  /\ UNCHANGED <<pipelineVars, componentVars>>

\* transcriber.LoadModels: CheckModels again, then LoadVocabulary on the
\* vocabulary file of the model, which assigns the vocabulary fields when it
\* succeeds.  The SetStatus for its result follows.
LMLoad ==
  /\ Running
  /\ lmPc = "load"
  /\ \E allExist \in BOOLEAN, outcome \in LoadOutcomes :
       LET r == LoadVocabularyResult([vocab |-> vocab, blankIdx |-> blankIdx],
                                     VocabHello, outcome, 0)
       IN IF allExist
          THEN /\ vocab' = r.vocab
               /\ blankIdx' = r.blankIdx
               /\ vocabLoaded' = (vocabLoaded \/ r.err = <<>>)
               /\ lmPc' = IF r.err = <<>> THEN "setLoaded" ELSE "setUnloaded"
          ELSE /\ UNCHANGED <<vocab, blankIdx, vocabLoaded>>
               /\ lmPc' = "setUnloaded"
  /\ UNCHANGED <<statusCurrent, statusPrevious, history, historyLimit, nextID, isRecording, recData, device,
                 uiPc, uiClicks, ppEnabled, procs, mainPc>>
  /\ UNCHANGED <<tPc, wavData, stages, samples, features, featuresLen, encCall,
                 encoderOut, encoderLen, t, transcribedTokens, lastEmittedToken,
                 lastToken, state1, state2, step, calls, ort, result, err>>
  /\ UNCHANGED componentVars

\* The SetStatus that ends LoadModels: StatusLoaded after the models were
\* loaded, StatusUnloaded after a failed download or load.
LMSetStatus ==
  /\ Running
  /\ lmPc \in {"setLoaded", "setUnloaded"}
  /\ SetStatus(IF lmPc = "setLoaded" THEN StatusLoaded ELSE StatusUnloaded)
  /\ lmPc' = "done"
  /\ UNCHANGED <<history, historyLimit, nextID, isRecording, recData, device,
                 uiPc, uiClicks, ppEnabled, procs, mainPc>>
  /\ UNCHANGED <<pipelineVars, componentVars>>

(***************************************************************************)
(* engine.Engine.processRecording: the locals of a goroutine               *)
(***************************************************************************)
\* The texts TranscribeWAV returns, the answer of the API, and the body of
\* the configured prompt, in which Placeholder stands for "${output}".
RawTexts == {<<>>, <<"h", "i">>}
ProcessedText == <<"H", "i", ".">>
Placeholder == "${output}"
PromptBody == <<"F", "i", "x", ":", Placeholder>>

\* A processRecording goroutine as "go e.processRecording()" creates it.
\* text is its local of that name; the other fields record what the run did:
\* the text TranscribeWAV returned, whether Process returned an error, the
\* audio SaveWAV wrote, the text given to writer.Write and to
\* AddHistoryEntry (<<>> for none yet), and the buffer the recorder held when
\* the goroutine was created.
NewGoroutine(buffer) ==
  [pc |-> "setTranscribing", text |-> <<>>, raw |-> <<>>, ppErr |-> FALSE,
   saved |-> <<>>, written |-> <<>>, added |-> <<>>, captured |-> buffer]

\* A goroutine that has returned: its locals are gone.
Returned == [NewGoroutine(<<>>) EXCEPT !.pc = "done"]

(***************************************************************************)
(* systray.Instance.handleMenuClicks and engine.Engine.ToggleRecording     *)
(***************************************************************************)
\* A click on the record item: ToggleRecording reads the status and
\* dispatches on it.
UIClick ==
  /\ Running
  /\ uiPc = "idle"
  /\ uiClicks < MaxClicks
  /\ uiClicks' = uiClicks + 1
  /\ uiPc' = CASE statusCurrent = StatusListening -> "stopRecording"
               [] statusCurrent = StatusLoaded -> "startRecording"
               [] OTHER -> "idle"
  /\ UNCHANGED <<statusCurrent, statusPrevious, history, historyLimit, nextID,
                 isRecording, recData, device, lmPc, ppEnabled, procs, mainPc>>
  /\ UNCHANGED <<pipelineVars, componentVars>>

\* A click on the quit item, in whatever state: onQuit cancels the context
\* of run (nothing changes when it is cancelled already), and
\* handleMenuClicks returns.
UIQuit ==
  /\ Running
  /\ uiPc = "idle"
  /\ uiPc' = "returned"
  /\ mainPc' = IF mainPc = "running" THEN "shutdown" ELSE mainPc
  /\ UNCHANGED <<statusCurrent, statusPrevious, history, historyLimit, nextID,
                 isRecording, recData, device, uiClicks, lmPc, ppEnabled, procs>>
  /\ UNCHANGED <<pipelineVars, componentVars>>

\* startRecording: recorder.Start(); on error return, else SetStatus follows.
UIStartRecording ==
  /\ Running
  /\ uiPc = "startRecording"
  /\ \E outcome \in {"ok", "initErr", "startErr"} :
       /\ RecorderStart(outcome)
       /\ uiPc' = IF RecorderStartOk(outcome) THEN "setListening" ELSE "idle"
  /\ UNCHANGED <<statusCurrent, statusPrevious, history, historyLimit, nextID,
                 uiClicks, lmPc, ppEnabled, procs, mainPc>>
  /\ UNCHANGED <<pipelineVars, componentVars>>

UISetListening ==
  /\ Running
  /\ uiPc = "setListening"
  /\ SetStatus(StatusListening)
  /\ uiPc' = "idle"
  /\ UNCHANGED <<history, historyLimit, nextID, isRecording, recData, device,
                 uiClicks, lmPc, ppEnabled, procs, mainPc>>
  /\ UNCHANGED <<pipelineVars, componentVars>>

\* stopRecording: recorder.Stop(), the part under r.mu
UIStopRecording ==
  /\ Running
  /\ uiPc = "stopRecording"
  /\ RecorderStopFlag
  /\ uiPc' = "stopDevice"
  /\ UNCHANGED <<statusCurrent, statusPrevious, history, historyLimit, nextID,
                 uiClicks, lmPc, ppEnabled, procs, mainPc>>
  /\ UNCHANGED <<pipelineVars, componentVars>>

\* stopRecording: recorder.Stop(), the part after r.mu is released
UIStopDevice ==
  /\ Running
  /\ uiPc = "stopDevice"
  /\ RecorderStopDevice
  /\ uiPc' = "spawn"
  /\ UNCHANGED <<statusCurrent, statusPrevious, history, historyLimit, nextID,
                 uiClicks, lmPc, ppEnabled, procs, mainPc>>
  /\ UNCHANGED <<pipelineVars, componentVars>>

\* stopRecording: go e.processRecording()
UISpawn ==
  /\ Running
  /\ uiPc = "spawn"
  /\ procs' = Append(procs, NewGoroutine(recData))
  /\ uiPc' = "idle"
  /\ UNCHANGED <<statusCurrent, statusPrevious, history, historyLimit, nextID,
                 isRecording, recData, device, uiClicks, lmPc, ppEnabled, mainPc>>
  /\ UNCHANGED <<pipelineVars, componentVars>>

(***************************************************************************)
(* run in cmd: the end of the process and engine.Engine.Shutdown           *)
(***************************************************************************)
\* SIGINT or SIGTERM cancels the context of run.
MainSignal ==
  /\ Running
  /\ mainPc = "running"
  /\ mainPc' = "shutdown"
  /\ UNCHANGED <<statusCurrent, statusPrevious, history, historyLimit, nextID,
                 isRecording, recData, device, uiPc, uiClicks, lmPc, ppEnabled,
                 procs>>
  /\ UNCHANGED <<pipelineVars, componentVars>>

\* run returns and its deferred eng.Shutdown() reads the status: the
\* recorder is stopped when the status is Listening, else Shutdown returns.
ShutdownGetStatus ==
  /\ Running
  /\ mainPc = "shutdown"
  /\ mainPc' = IF statusCurrent = StatusListening THEN "stopRecording" ELSE "deferred"
  /\ UNCHANGED <<statusCurrent, statusPrevious, history, historyLimit, nextID,
                 isRecording, recData, device, uiPc, uiClicks, lmPc, ppEnabled,
                 procs>>
  /\ UNCHANGED <<pipelineVars, componentVars>>

\* Shutdown: recorder.Stop(), the part under r.mu
ShutdownStopRecording ==
  /\ Running
  /\ mainPc = "stopRecording"
  /\ RecorderStopFlag
  /\ mainPc' = "stopDevice"
  /\ UNCHANGED <<statusCurrent, statusPrevious, history, historyLimit, nextID,
                 uiPc, uiClicks, lmPc, ppEnabled, procs>>
  /\ UNCHANGED <<pipelineVars, componentVars>>

\* Shutdown: recorder.Stop(), the part after r.mu is released; Shutdown
\* returns.
ShutdownStopDevice ==
  /\ Running
  /\ mainPc = "stopDevice"
  /\ RecorderStopDevice
  /\ mainPc' = "deferred"
  /\ UNCHANGED <<statusCurrent, statusPrevious, history, historyLimit, nextID,
                 uiPc, uiClicks, lmPc, ppEnabled, procs>>
  /\ UNCHANGED <<pipelineVars, componentVars>>

\* The deferred calls left after Engine.Shutdown (soundPlayer.Shutdown,
\* transcriber.Shutdown, stop) have run, run and main return, and the
\* process ends with whatever its other goroutines were doing.
MainExit ==
  /\ Running
  /\ mainPc = "deferred"
  /\ mainPc' = "exited"
  /\ UNCHANGED <<statusCurrent, statusPrevious, history, historyLimit, nextID,
                 isRecording, recData, device, uiPc, uiClicks, lmPc, ppEnabled,
                 procs>>
  /\ UNCHANGED <<pipelineVars, componentVars>>

(***************************************************************************)
(* postprocess.Instance.Process                                            *)
(***************************************************************************)
\* strings.ReplaceAll for a pattern that is one element of the text (the
\* placeholder) and a replacement of any length
RECURSIVE ReplaceAllText(_, _, _)
ReplaceAllText(s, old, new) ==
  IF s = <<>> THEN <<>>
  ELSE (IF Head(s) = old THEN new ELSE <<Head(s)>>) \o ReplaceAllText(Tail(s), old, new)

\* callAPI: the answer, or the text it was given when the call fails or the
\* answer is blank.  api is what the API does: "ok" (an answer),
\* "blankAnswer" (an answer that is blank once trimmed), "apiErr" (any
\* failure of the request or the response).
callAPI(text, api) ==
  CASE api = "apiErr" -> [text |-> text, err |-> TRUE]
    [] api = "blankAnswer" -> [text |-> text, err |-> FALSE]
    [] OTHER -> [text |-> ProcessedText, err |-> FALSE]

\* Process: the text is returned as it is when post-processing is disabled,
\* when the text is blank or when no prompt is configured (getSystemPrompt
\* returns <<>>); otherwise the prompt with the text in place of the
\* placeholder is sent to the API.
Process(text, enabled, prompt, api) ==
  IF ~enabled THEN [text |-> text, err |-> FALSE]
  ELSE IF TrimSpace(text) = <<>> THEN [text |-> text, err |-> FALSE]
  ELSE IF prompt = <<>> THEN [text |-> text, err |-> FALSE]
  ELSE callAPI(ReplaceAllText(prompt, Placeholder, text), api)

\* "if err != nil { warn } else { text = processed }"
KeepOrReplace(text, r) == IF r.err THEN text ELSE r.text

(***************************************************************************)
(* engine.Engine.processRecording, one goroutine per stopRecording         *)
(***************************************************************************)
PSetTranscribing(p) ==
  /\ Running
  /\ p \in DOMAIN procs
  /\ procs[p].pc = "setTranscribing"
  /\ SetStatus(StatusTranscribing)
  /\ procs' = [procs EXCEPT ![p].pc = "saveWAV"]
  /\ UNCHANGED <<history, historyLimit, nextID, isRecording, recData, device,
                 uiPc, uiClicks, lmPc, ppEnabled, mainPc>>
  /\ UNCHANGED <<pipelineVars, componentVars>>

\* recorder.SaveWAV under r.mu: writes the current buffer, or fails.
PSaveWAV(p) ==
  /\ Running
  /\ p \in DOMAIN procs
  /\ procs[p].pc = "saveWAV"
  /\ \E ok \in BOOLEAN :
       IF ok
       THEN procs' = [procs EXCEPT ![p].pc = "readFile", ![p].saved = recData]
       ELSE procs' = [procs EXCEPT ![p].pc = "handleError"]
  /\ UNCHANGED <<statusCurrent, statusPrevious, history, historyLimit, nextID,
                 isRecording, recData, device, uiPc, uiClicks, lmPc, ppEnabled,
                 mainPc>>
  /\ UNCHANGED <<pipelineVars, componentVars>>

\* os.ReadFile(audioPath); on success TranscribeWAV is entered.
PReadFile(p) ==
  /\ Running
  /\ p \in DOMAIN procs
  /\ procs[p].pc = "readFile"
  /\ \E ok \in BOOLEAN :
       procs' = [procs EXCEPT ![p].pc = IF ok THEN "transcribing" ELSE "handleError"]
  /\ UNCHANGED <<statusCurrent, statusPrevious, history, historyLimit, nextID,
                 isRecording, recData, device, uiPc, uiClicks, lmPc, ppEnabled,
                 mainPc>>
  /\ UNCHANGED <<pipelineVars, componentVars>>

\* transcriber.TranscribeWAV returns a text or an error; on a text,
\* IsEnabled() decides whether post-processing runs.
PTranscribe(p) ==
  /\ Running
  /\ p \in DOMAIN procs
  /\ procs[p].pc = "transcribing"
  /\ \/ procs' = [procs EXCEPT ![p].pc = "handleError"]
     \/ \E text \in RawTexts :
          procs' = [procs EXCEPT ![p].text = text, ![p].raw = text,
                                 ![p].pc = IF ppEnabled THEN "setPostProcessing"
                                           ELSE "write"]
  /\ UNCHANGED <<statusCurrent, statusPrevious, history, historyLimit, nextID,
                 isRecording, recData, device, uiPc, uiClicks, lmPc, ppEnabled,
                 mainPc>>
  /\ UNCHANGED <<pipelineVars, componentVars>>

PSetPostProcessing(p) ==
  /\ Running
  /\ p \in DOMAIN procs
  /\ procs[p].pc = "setPostProcessing"
  /\ SetStatus(StatusPostProcessing)
  /\ procs' = [procs EXCEPT ![p].pc = "process"]
  /\ UNCHANGED <<history, historyLimit, nextID, isRecording, recData, device,
                 uiPc, uiClicks, lmPc, ppEnabled, mainPc>>
  /\ UNCHANGED <<pipelineVars, componentVars>>

\* postprocess.Process, which reads IsEnabled() again, and the choice
\* between its result and the raw text.
PProcess(p) ==
  /\ Running
  /\ p \in DOMAIN procs
  /\ procs[p].pc = "process"
  /\ \E prompt \in {<<>>, PromptBody}, api \in {"ok", "blankAnswer", "apiErr"} :
       LET r == Process(procs[p].text, ppEnabled, prompt, api)
       IN procs' = [procs EXCEPT ![p].text = KeepOrReplace(procs[p].text, r),
                                 ![p].ppErr = r.err,
                                 ![p].pc = "write"]
  /\ UNCHANGED <<statusCurrent, statusPrevious, history, historyLimit, nextID,
                 isRecording, recData, device, uiPc, uiClicks, lmPc, ppEnabled,
                 mainPc>>
  /\ UNCHANGED <<pipelineVars, componentVars>>

\* writer.Write; its error is only logged.
PWrite(p) ==
  /\ Running
  /\ p \in DOMAIN procs
  /\ procs[p].pc = "write"
  /\ procs' = [procs EXCEPT ![p].written = <<procs[p].text>>, ![p].pc = "addHistory"]
  /\ UNCHANGED <<statusCurrent, statusPrevious, history, historyLimit, nextID,
                 isRecording, recData, device, uiPc, uiClicks, lmPc, ppEnabled,
                 mainPc>>
  /\ UNCHANGED <<pipelineVars, componentVars>>

\* state.AddHistoryEntry under historyMu: the entry is prepended and nextID
\* incremented before the list is cut; a cut that panics ends the process.
PAddHistory(p) ==
  /\ Running
  /\ p \in DOMAIN procs
  /\ procs[p].pc = "addHistory"
  /\ LET h == <<[ID |-> nextID, Text |-> procs[p].text]>> \o history
     IN IF Len(h) > historyLimit /\ ~SliceInRange(h, historyLimit)
        THEN /\ nextID' = nextID + 1
             /\ history' = h
             /\ historyPanic' = TRUE
             /\ procs' = [procs EXCEPT ![p].pc = "panicked"]
        ELSE /\ AddHistoryEntry(procs[p].text)
             /\ UNCHANGED historyPanic
             /\ procs' = [procs EXCEPT ![p].added = <<procs[p].text>>,
                                       ![p].pc = "setLoaded"]
  /\ UNCHANGED <<statusCurrent, statusPrevious, historyLimit,
                 isRecording, recData, device, uiPc, uiClicks, lmPc, ppEnabled,
                 mainPc>>
  /\ UNCHANGED <<lastLoad, resampleCall, statusMu, statusThreads, statusProduced>>
  /\ UNCHANGED pipelineVars

PSetLoaded(p) ==
  /\ Running
  /\ p \in DOMAIN procs
  /\ procs[p].pc = "setLoaded"
  /\ SetStatus(StatusLoaded)
  /\ procs' = [procs EXCEPT ![p] = Returned]
  /\ UNCHANGED <<history, historyLimit, nextID, isRecording, recData, device,
                 uiPc, uiClicks, lmPc, ppEnabled, mainPc>>
  /\ UNCHANGED <<pipelineVars, componentVars>>

\* handleError: log, notify, SetStatus(Loaded).
PHandleError(p) ==
  /\ Running
  /\ p \in DOMAIN procs
  /\ procs[p].pc = "handleError"
  /\ SetStatus(StatusLoaded)
  /\ procs' = [procs EXCEPT ![p] = Returned]
  /\ UNCHANGED <<history, historyLimit, nextID, isRecording, recData, device,
                 uiPc, uiClicks, lmPc, ppEnabled, mainPc>>
  /\ UNCHANGED <<pipelineVars, componentVars>>

ProcessRecordingActive(p) == procs[p].pc \notin {"done", "panicked"}

(***************************************************************************)
(* Specification of the engine                                             *)
(***************************************************************************)
\* history_limit of the settings file: any int.
HistoryLimits == {-1, 0, 1}

Init ==
  /\ statusCurrent = StatusUnloaded
  /\ statusPrevious = StatusUnknown
  /\ history = <<>>
  /\ historyLimit \in HistoryLimits
  /\ nextID = 1
  /\ isRecording = FALSE
  /\ recData = <<>>
  /\ device = "nil"
  /\ uiPc = "idle"
  /\ uiClicks = 0
  /\ lmPc = "start"
  /\ ppEnabled \in BOOLEAN
  /\ procs = <<>>
  /\ mainPc = "running"
  /\ PipelineIdle
  /\ ComponentIdle

Next ==
  \/ LMSetLoading
  \/ LMDownload
  \/ LMLoad
  \/ LMSetStatus
  \/ UIClick
  \/ UIQuit
  \/ UIStartRecording
  \/ UISetListening
  \/ UIStopRecording
  \/ UIStopDevice
  \/ UISpawn
  \/ OnData
  \/ MainSignal
  \/ ShutdownGetStatus
  \/ ShutdownStopRecording
  \/ ShutdownStopDevice
  \/ MainExit
  \/ \E p \in DOMAIN procs : PSetTranscribing(p)
  \/ \E p \in DOMAIN procs : PSaveWAV(p)
  \/ \E p \in DOMAIN procs : PReadFile(p)
  \/ \E p \in DOMAIN procs : PTranscribe(p)
  \/ \E p \in DOMAIN procs : PSetPostProcessing(p)
  \/ \E p \in DOMAIN procs : PProcess(p)
  \/ \E p \in DOMAIN procs : PWrite(p)
  \/ \E p \in DOMAIN procs : PAddHistory(p)
  \/ \E p \in DOMAIN procs : PSetLoaded(p)
  \/ \E p \in DOMAIN procs : PHandleError(p)

Spec == Init /\ [][Next]_vars

\* A step of the processRecording goroutine p.
ProcessRecordingStep(p) ==
  \/ PSetTranscribing(p)
  \/ PSaveWAV(p)
  \/ PReadFile(p)
  \/ PTranscribe(p)
  \/ PSetPostProcessing(p)
  \/ PProcess(p)
  \/ PWrite(p)
  \/ PAddHistory(p)
  \/ PSetLoaded(p)
  \/ PHandleError(p)

\* The Go scheduler runs every spawned goroutine, and each call made by
\* processRecording returns.  MaxClicks clicks create at most MaxClicks - 1
\* goroutines: the first click is no stop.
FairSpec == Spec /\ \A p \in 1..(MaxClicks - 1) : WF_vars(ProcessRecordingStep(p))

(***************************************************************************)
(* Specification of the history: New(limit), then any sequence of          *)
(* AddHistoryEntry, ClearHistory and SetHistoryLimit                       *)
(***************************************************************************)
MaxHistoryLimit == 3
MaxEntries == 5

\* The limits given to New and SetHistoryLimit: any int, here from -1.
LimitValues == (-1)..MaxHistoryLimit

HistoryTexts == {"hello", "hello world"}

\* AddHistoryEntry: the entry is prepended and nextID incremented before the
\* list is cut; a cut that panics leaves the list uncut.
HAddHistoryEntry ==
  /\ ~historyPanic
  /\ nextID <= MaxEntries
  /\ \E text \in HistoryTexts :
       LET h == <<[ID |-> nextID, Text |-> text]>> \o history
       IN IF Len(h) > historyLimit /\ ~SliceInRange(h, historyLimit)
          THEN /\ nextID' = nextID + 1
               /\ history' = h
               /\ historyPanic' = TRUE
          ELSE /\ AddHistoryEntry(text)
               /\ UNCHANGED historyPanic
  /\ UNCHANGED <<statusCurrent, statusPrevious, historyLimit, isRecording, recData,
                 device, uiPc, uiClicks, lmPc, ppEnabled, procs, mainPc>>
  /\ UNCHANGED <<lastLoad, resampleCall, statusMu, statusThreads, statusProduced>>
  /\ UNCHANGED pipelineVars

\* ClearHistory: a new empty list; nextID is kept.
HClearHistory ==
  /\ ~historyPanic
  /\ history' = <<>>
  /\ UNCHANGED <<statusCurrent, statusPrevious, historyLimit, nextID, isRecording,
                 recData, device, uiPc, uiClicks, lmPc, ppEnabled, procs, mainPc>>
  /\ UNCHANGED <<pipelineVars, componentVars>>

\* SetHistoryLimit: the limit is stored, then the list is cut to it.
HSetHistoryLimit ==
  /\ ~historyPanic
  /\ \E limit \in LimitValues :
       /\ historyLimit' = limit
       /\ IF Len(history) > limit
          THEN IF SliceInRange(history, limit)
               THEN history' = Truncate(history, limit) /\ UNCHANGED historyPanic
               ELSE UNCHANGED history /\ historyPanic' = TRUE
          ELSE UNCHANGED <<history, historyPanic>>
  /\ UNCHANGED <<statusCurrent, statusPrevious, nextID, isRecording, recData, device,
                 uiPc, uiClicks, lmPc, ppEnabled, procs, mainPc>>
  /\ UNCHANGED <<lastLoad, resampleCall, statusMu, statusThreads, statusProduced>>
  /\ UNCHANGED pipelineVars

\* state.New(historyLimit)
InitHistory ==
  /\ statusCurrent = StatusUnloaded
  /\ statusPrevious = StatusUnknown
  /\ history = <<>>
  /\ historyLimit \in LimitValues
  /\ nextID = 1
  /\ isRecording = FALSE
  /\ recData = <<>>
  /\ device = "nil"
  /\ uiPc = "idle"
  /\ uiClicks = 0
  /\ lmPc = "start"
  /\ ppEnabled = FALSE
  /\ procs = <<>>
  /\ mainPc = "running"
  /\ PipelineIdle
  /\ ComponentIdle

NextHistory ==
  \/ HAddHistoryEntry
  \/ HClearHistory
  \/ HSetHistoryLimit

SpecHistory == InitHistory /\ [][NextHistory]_vars

(***************************************************************************)
(* Specification of the status: goroutines calling SetStatus and GetStatus *)
(* concurrently, one memory access per step                                *)
(***************************************************************************)
MaxSetCalls == 2

\* The goroutines that set the status (LoadModels, ToggleRecording,
\* processRecording) and the one that polls it (animate).
StatusWriters == {1, 2}
StatusReaders == {3}

\* The statuses given to SetStatus.
StatusArgs == {StatusLoading, StatusLoaded, StatusListening}

InitialPair == <<StatusUnloaded, StatusUnknown>>

IdleThread == [pc |-> "idle", arg |-> "", old |-> "", current |-> "", previous |-> "",
               calls |-> 0]

\* statusMu.Lock() returns: no writer and no reader holds the mutex.
CanLock(mu) == mu.writer = 0 /\ mu.readers = {}

CanRLockAlways(mu) == TRUE

\* statusMu.RLock() returns: no writer holds the mutex.
CanRLock(mu) == mu.writer = 0

StatusRest ==
  /\ UNCHANGED <<history, historyLimit, nextID, isRecording, recData, device, uiPc,
                 uiClicks, lmPc, ppEnabled, procs, mainPc>>
  /\ UNCHANGED <<lastLoad, resampleCall, historyPanic>>
  /\ UNCHANGED pipelineVars

\* SetStatus(newStatus) is called and acquires the lock.
SLock(w) ==
  /\ statusThreads[w].pc = "idle"
  /\ statusThreads[w].calls < MaxSetCalls
  /\ CanLock(statusMu)
  /\ \E newStatus \in StatusArgs :
       statusThreads' = [statusThreads EXCEPT ![w].pc = "setPrevious",
                                              ![w].arg = newStatus,
                                              ![w].old = statusCurrent]
  /\ statusMu' = [statusMu EXCEPT !.writer = w]
  /\ UNCHANGED <<statusCurrent, statusPrevious, statusProduced>>
  /\ StatusRest

\* i.statusPrevious = i.statusCurrent
SWritePrevious(w) ==
  /\ statusThreads[w].pc = "setPrevious"
  /\ statusPrevious' = statusCurrent
  /\ statusThreads' = [statusThreads EXCEPT ![w].pc = "setCurrent"]
  /\ UNCHANGED <<statusCurrent, statusMu, statusProduced>>
  /\ StatusRest

\* i.statusCurrent = newStatus
SWriteCurrent(w) ==
  /\ statusThreads[w].pc = "setCurrent"
  /\ statusCurrent' = statusThreads[w].arg
  /\ statusThreads' = [statusThreads EXCEPT ![w].pc = "unlock"]
  /\ statusProduced' = statusProduced \cup {<<statusThreads[w].arg, statusThreads[w].old>>}
  /\ UNCHANGED <<statusPrevious, statusMu>>
  /\ StatusRest

\* The deferred statusMu.Unlock(); SetStatus returns.
SUnlock(w) ==
  /\ statusThreads[w].pc = "unlock"
  /\ statusMu' = [statusMu EXCEPT !.writer = 0]
  /\ statusThreads' = [statusThreads EXCEPT ![w].pc = "idle",
                                             ![w].calls = statusThreads[w].calls + 1]
  /\ UNCHANGED <<statusCurrent, statusPrevious, statusProduced>>
  /\ StatusRest

\* GetStatus is called and acquires the read lock.
GRLock(r) ==
  /\ statusThreads[r].pc \in {"idle", "returned"}
  /\ CanRLock(statusMu)
  /\ statusMu' = [statusMu EXCEPT !.readers = statusMu.readers \cup {r}]
  /\ statusThreads' = [statusThreads EXCEPT ![r].pc = "readCurrent"]
  /\ UNCHANGED <<statusCurrent, statusPrevious, statusProduced>>
  /\ StatusRest

\* The first operand of the return statement is read.
GReadCurrent(r) ==
  /\ statusThreads[r].pc = "readCurrent"
  /\ statusThreads' = [statusThreads EXCEPT ![r].pc = "readPrevious",
                                             ![r].current = statusCurrent]
  /\ UNCHANGED <<statusCurrent, statusPrevious, statusMu, statusProduced>>
  /\ StatusRest

\* The second operand of the return statement is read.
GReadPrevious(r) ==
  /\ statusThreads[r].pc = "readPrevious"
  /\ statusThreads' = [statusThreads EXCEPT ![r].pc = "runlock",
                                             ![r].previous = statusPrevious]
  /\ UNCHANGED <<statusCurrent, statusPrevious, statusMu, statusProduced>>
  /\ StatusRest

\* The deferred statusMu.RUnlock(); GetStatus returns (current, previous).
GRUnlock(r) ==
  /\ statusThreads[r].pc = "runlock"
  /\ statusMu' = [statusMu EXCEPT !.readers = statusMu.readers \ {r}]
  /\ statusThreads' = [statusThreads EXCEPT ![r].pc = "returned"]
  /\ UNCHANGED <<statusCurrent, statusPrevious, statusProduced>>
  /\ StatusRest

InitStatus ==
  /\ EngineIdle
  /\ PipelineIdle
  /\ lastLoad = NoLoad
  /\ resampleCall = NoResample
  /\ historyPanic = FALSE
  /\ statusMu = [writer |-> 0, readers |-> {}]
  /\ statusThreads = [th \in StatusWriters \cup StatusReaders |-> IdleThread]
  /\ statusProduced = {}

NextStatus ==
  \/ \E w \in StatusWriters : SLock(w)
  \/ \E w \in StatusWriters : SWritePrevious(w)
  \/ \E w \in StatusWriters : SWriteCurrent(w)
  \/ \E w \in StatusWriters : SUnlock(w)
  \/ \E r \in StatusReaders : GRLock(r)
  \/ \E r \in StatusReaders : GReadCurrent(r)
  \/ \E r \in StatusReaders : GReadPrevious(r)
  \/ \E r \in StatusReaders : GRUnlock(r)

SpecStatus == InitStatus /\ [][NextStatus]_vars

(***************************************************************************)
(* Specification of resampling: resample called on bounded inputs          *)
(***************************************************************************)
MaxResampleLen == 4
MaxRate == 4

\* The rates given to resample: any int, here from -1.  Positive rates are
\* sample rates up to a common factor: 44100 and 16000 resample as 441 and
\* 160.
ResampleRates == (-1)..MaxRate

\* Mono samples in [-1, 1]: a rising ramp and an alternating signal.
ResampleRamp(n) == [j \in 1..n |-> Rat(j, n + 1)]
ResampleInputs ==
  UNION {{ResampleRamp(n),
          [j \in 1..n |-> Rat(IF j % 2 = 1 THEN 1 ELSE -1, 2)]} : n \in 0..MaxResampleLen}

\* Calls <<len(input), fromRate, toRate>> in which the float64 quotient or
\* product is rounded away from the exact one: 9 / (9/7) and 35 / (7/3) fall
\* just below 7 and 15, and 45 * (7/5) falls just below 63.
ResampleRoundingCalls == {<<9, 9, 7>>, <<35, 7, 3>>, <<65, 7, 5>>}

\* The arguments of the call
ResampleCalls ==
  {[NoResample EXCEPT !.input = input, !.fromRate = fromRate, !.toRate = toRate,
                      !.arch = arch] :
     input \in ResampleInputs, fromRate \in ResampleRates, toRate \in ResampleRates,
     arch \in GoArchs}
  \cup {[NoResample EXCEPT !.input = ResampleRamp(c[1]), !.fromRate = c[2],
                           !.toRate = c[3], !.arch = arch] :
          c \in ResampleRoundingCalls, arch \in GoArchs}

RResample ==
  /\ ~resampleCall.called
  /\ resampleCall' = resampleRun(resampleCall.input, resampleCall.fromRate,
                                 resampleCall.toRate, resampleCall.arch)
  /\ UNCHANGED <<lastLoad, historyPanic, statusMu, statusThreads, statusProduced>>
  /\ UNCHANGED <<engineVars, pipelineVars>>

InitResample ==
  /\ EngineIdle /\ PipelineIdle
  /\ resampleCall \in ResampleCalls
  /\ lastLoad = NoLoad
  /\ historyPanic = FALSE
  /\ statusMu = [writer |-> 0, readers |-> {}]
  /\ statusThreads = <<>>
  /\ statusProduced = {}

NextResample == RResample

SpecResample == InitResample /\ [][NextResample]_vars

(***************************************************************************)
(* Specification of vocabulary loading: LoadVocabulary called repeatedly   *)
(***************************************************************************)
MaxLoads == 3

\* One LoadVocabulary call on the model; the call is recorded in lastLoad.
VLoadVocabulary ==
  /\ lastLoad.seq < MaxLoads
  /\ \E lines \in VocabTables, outcome \in LoadOutcomes : \E k \in 0..Len(lines) :
       LET r == LoadVocabularyResult([vocab |-> vocab, blankIdx |-> blankIdx],
                                     lines, outcome, k)
       IN /\ vocab' = r.vocab
          /\ blankIdx' = r.blankIdx
          /\ vocabLoaded' = (vocabLoaded \/ r.err = <<>>)
          /\ lastLoad' = [seq |-> lastLoad.seq + 1, lines |-> lines, err |-> r.err,
                          okLines |-> IF r.err = <<>> THEN lines ELSE lastLoad.okLines]
  /\ UNCHANGED <<tPc, wavData, stages, samples, features, featuresLen, encCall,
                 encoderOut, encoderLen, t, transcribedTokens, lastEmittedToken,
                 lastToken, state1, state2, step, calls, ort, result, err>>
  /\ UNCHANGED <<resampleCall, historyPanic, statusMu, statusThreads, statusProduced>>
  /\ UNCHANGED engineVars

InitVocabulary == EngineIdle /\ PipelineIdle /\ ComponentIdle

NextVocabulary == VLoadVocabulary

SpecVocabulary == InitVocabulary /\ [][NextVocabulary]_vars

(***************************************************************************)
(* C1: at most one transcription is in flight at any time: never are two   *)
(* processRecording runs (and so two TranscribeWAV calls) active at once.  *)
(***************************************************************************)
SingleFlightTranscription ==
  /\ Cardinality({p \in DOMAIN procs : ProcessRecordingActive(p)}) <= 1
  /\ Cardinality({p \in DOMAIN procs : procs[p].pc = "transcribing"}) <= 1

(***************************************************************************)
(* Properties of the greedy decoder                                        *)
(***************************************************************************)
\* A completed iteration of the decode loop.
DecodeStepTaken ==
  /\ tPc = "decoding"
  /\ tPc' = "decoding"
  /\ Len(calls') = Len(calls) + 1

Last(s) == s[Len(s)]

IsBlankCall(c) == c.bestToken = blankIdx
IsRepeatCall(c) == c.bestToken # blankIdx /\ c.bestToken = c.lastEmittedToken
IsNovelCall(c) ==
  c.bestToken >= 0 /\ c.bestToken # blankIdx /\ c.bestToken # c.lastEmittedToken

ZeroState == ConstTensor(DecoderStateSize, 0)

\* C2: at a step whose arg-max token is neither blank nor the last emitted
\* token, the token is appended to the output, last-emitted and last-token
\* become that token, and state1/state2 become the states the step returned.
C2_NovelTokenRule ==
  [][(DecodeStepTaken /\ IsNovelCall(Last(calls')))
       => /\ transcribedTokens' =
               Append(transcribedTokens, vocab[Last(calls').bestToken + 1])
          /\ lastEmittedToken' = Last(calls').bestToken
          /\ lastToken' = Last(calls').bestToken
          /\ state1' = step'.newState1
          /\ state2' = step'.newState2]_vars

\* A second token was just emitted and the adopted states are not both the
\* states held before.
C2_Witness ==
  /\ tPc = "decoding"
  /\ calls # <<>>
  /\ IsNovelCall(Last(calls))
  /\ Len(transcribedTokens) = 2
  /\ state1 = step.newState1 /\ state1 # Last(calls).state1
  /\ state2 = step.newState2 /\ state2 # Last(calls).state2

\* C3: at a step whose arg-max token is blank, the output, last-token,
\* state1 and state2 stay as they are, last-emitted becomes -1, and the
\* loop moves to step t+1.
C3_BlankRule ==
  [][(DecodeStepTaken /\ IsBlankCall(Last(calls')))
       => /\ transcribedTokens' = transcribedTokens
          /\ lastToken' = lastToken
          /\ state1' = state1
          /\ state2' = state2
          /\ lastEmittedToken' = -1
          /\ t' = t + 1]_vars

\* A blank step after an emission, whose returned states were discarded.
C3_Witness ==
  /\ tPc = "decoding"
  /\ calls # <<>>
  /\ IsBlankCall(Last(calls))
  /\ Last(calls).lastEmittedToken # -1
  /\ Len(transcribedTokens) = 1
  /\ lastEmittedToken = -1
  /\ step.newState1 # state1
  /\ step.newState2 # state2

\* C4: at a step whose arg-max token is non-blank and equals last-emitted,
\* nothing is appended and last-token, last-emitted, state1 and state2 stay
\* as they are, so the next decoder-joint call gets the same token and
\* recurrent states as this one.
RepeatThenSameInputs ==
  \A i \in 1..(Len(calls) - 1) :
    IsRepeatCall(calls[i])
      => /\ calls[i + 1].target = calls[i].target
         /\ calls[i + 1].state1 = calls[i].state1
         /\ calls[i + 1].state2 = calls[i].state2

C4_RepeatRule ==
  /\ []RepeatThenSameInputs
  /\ [][(DecodeStepTaken /\ IsRepeatCall(Last(calls')))
          => /\ transcribedTokens' = transcribedTokens
             /\ lastToken' = lastToken
             /\ lastEmittedToken' = lastEmittedToken
             /\ state1' = state1
             /\ state2' = state2]_vars

\* A repeat step whose returned states differed from the held ones, followed
\* by one more decoder-joint call.
C4_Witness ==
  /\ Len(calls) = 3
  /\ IsNovelCall(calls[1])
  /\ IsRepeatCall(calls[2])
  /\ calls[2].state1 # ZeroState
  /\ calls[3].bestToken >= 0
  /\ Len(transcribedTokens) = 1

\* C5: without a step error the decoder-joint is run exactly once for each
\* t = 0, 1, ..., T2'-1 in increasing order, whatever tokens are chosen, and
\* the decoder then terminates after exactly T2' runs: each step of the loop
\* either returns or moves t up by one within 0..T2' (so the loop ends
\* after at most T2' steps), and a finished decode has made T2' runs.
OneRunPerFrame ==
  /\ \A i \in 1..Len(calls) : calls[i].t = i - 1
  /\ tPc = "decoding" => /\ Len(calls) = t
                         /\ t <= encoderLen
  /\ (tPc = "done" /\ err = <<>>) => Len(calls) = encoderLen

C5_FixedLoop ==
  /\ []OneRunPerFrame
  /\ [][tPc = "decoding"
          => \/ tPc' = "done"
             \/ (t' = t + 1 /\ t' <= encoderLen /\ Len(calls') = Len(calls) + 1)]_vars

\* A three-frame decode that finished, having emitted something.
C5_Witness ==
  /\ tPc = "done"
  /\ err = <<>>
  /\ encoderLen = 3
  /\ Len(calls) = 3
  /\ Len(transcribedTokens) >= 1

\* C6: the chosen token is the arg-max over the first V logits only: no
\* vocabulary logit is larger, every vocabulary logit at a lower index is
\* strictly smaller, and the 5 duration scores play no part.
C6_ArgmaxOverVocabulary ==
  step.t >= 0 =>
    LET V == Len(vocab)
        b == step.bestToken
    IN /\ Len(step.logits) = V + parakeetNumDurations
       /\ b \in 0..(V - 1)
       /\ \A j \in 1..V : step.logits[j] <= step.logits[b + 1]
       /\ \A j \in 1..b : step.logits[j] < step.logits[b + 1]

\* The duration scores exceed every vocabulary logit and the maximum
\* vocabulary logit occurs twice; the lower of the two indices was chosen.
C6_Witness ==
  /\ step.t >= 0
  /\ Len(vocab) = 3
  /\ step.logits[Len(vocab) + 1] > step.logits[step.bestToken + 1]
  /\ step.bestToken = 1
  /\ step.logits[3] = step.logits[2]

\* C7: if every decode step decides blank (also when T2' = 0), the output
\* is empty, the transcript is "", the recurrent states are still zero and
\* last-token is still the blank id.
AllBlank == \A i \in 1..Len(calls) : IsBlankCall(calls[i])

C7_AllBlankEmpty ==
  (tPc \in {"decoding", "done"} /\ err = <<>> /\ AllBlank)
    => /\ transcribedTokens = <<>>
       /\ state1 = ZeroState
       /\ state2 = ZeroState
       /\ lastToken = blankIdx
       /\ tPc = "done" => result = <<>>

\* The silent recording: three frames, three blank decisions, non-zero
\* states returned by the session and discarded.
C7_Witness ==
  /\ tPc = "done"
  /\ err = <<>>
  /\ wavData = "silence"
  /\ Len(calls) = 3
  /\ AllBlank
  /\ step.newState1 # ZeroState
  /\ result = <<>>

(***************************************************************************)
(* Detokenization                                                          *)
(***************************************************************************)
RECURSIVE CharsBefore(_, _)
CharsBefore(tokens, i) ==
  IF i = 1 THEN 0 ELSE CharsBefore(tokens, i - 1) + Len(tokens[i - 1])

\* character k of the tokens written one after the other
FlatChar(tokens, k) ==
  LET i == CHOOSE i \in 1..Len(tokens) :
             CharsBefore(tokens, i) < k /\ k <= CharsBefore(tokens, i + 1)
  IN tokens[i][k - CharsBefore(tokens, i)]

Shown(c) == IF c = Marker THEN Space ELSE c

\* r is the tokens in order without separator, every marker shown as one
\* space, cut to the span from the first to the last non-space character.
IsDetokenization(r, tokens) ==
  LET n == CharsBefore(tokens, Len(tokens) + 1)
      vis == {k \in 1..n : ~IsSpace(Shown(FlatChar(tokens, k)))}
  IN IF vis = {} THEN r = <<>>
     ELSE /\ Len(r) = Max(vis) - Min(vis) + 1
          /\ \A i \in 1..Len(r) : r[i] = Shown(FlatChar(tokens, Min(vis) + i - 1))

HelloTokens ==
  << <<Marker, "h", "e", "l", "l", "o">>, <<Marker, "w", "o", "r", "l", "d">> >>
HelloWorld == <<"h", "e", "l", "l", "o", Space, "w", "o", "r", "l", "d">>

\* C8: the transcript is the emitted tokens joined without separator, each
\* marker U+2581 replaced by a space, trimmed of leading and trailing
\* whitespace (the tokens of "_hello_world" give "hello world"); while
\* decoding, the emitted tokens are the vocabulary entries as loaded, markers
\* included.
C8_Detokenization ==
  /\ \A i \in 1..Len(transcribedTokens) :
       \E k \in 1..Len(vocab) : transcribedTokens[i] = vocab[k]
  /\ (tPc = "done" /\ err = <<>>)
       => /\ IsDetokenization(result, transcribedTokens)
          /\ \A i \in 1..Len(result) : result[i] # Marker
          /\ transcribedTokens = HelloTokens => result = HelloWorld

C8_Witness ==
  /\ tPc = "done"
  /\ err = <<>>
  /\ transcribedTokens = HelloTokens
  /\ result = HelloWorld

\* A transcript whose last token ends in a marker: the space is trimmed.
C8_WitnessTrailing ==
  /\ tPc = "done"
  /\ err = <<>>
  /\ transcribedTokens = << <<Marker>>, <<"a", Marker>> >>
  /\ result = <<"a">>

(***************************************************************************)
(* The facade                                                              *)
(***************************************************************************)
InferenceStages == {"preprocessor", "encoder", "decoder"}
StagesRun == {stages[i] : i \in 1..Len(stages)}

\* C9: a TranscribeWAV call made before the vocabulary is loaded ends, for
\* every input, by returning the empty-vocabulary error, and runs no
\* inference stage.
C9_EmptyVocabularyErrorForEveryInput ==
  (tPc \in {"done", "panicked"} /\ vocab = <<>>)
    => /\ tPc = "done"
       /\ err = ErrVocabNotLoaded
       /\ StagesRun \cap InferenceStages = {}

\* C10: the stages run in the order normalizer, feature extractor, encoder,
\* decoder, each at most once and only while no earlier stage has failed;
\* the error of a failed stage names that stage and ends with the underlying
\* error.
StageOrder == <<"normalizer", "preprocessor", "encoder", "decoder">>

UnderlyingErrors == {"ort", "io", "invalid WAV file"}

StagesInOrder ==
  /\ Len(stages) <= Len(StageOrder)
  /\ \A i \in 1..Len(stages) : stages[i] = StageOrder[i]
  /\ err # <<>> => tPc = "done"
  /\ (err # <<>> /\ err # ErrVocabNotLoaded)
       => /\ err[1] = CASE Last(stages) = "normalizer" -> "error processing WAV data"
                        [] Last(stages) = "preprocessor" -> "preprocessor error"
                        [] Last(stages) = "encoder" -> "encoder error"
                        [] Last(stages) = "decoder" -> "decoder error"
          /\ Last(err) \in UnderlyingErrors
          /\ result = <<>>

C10_StageOrder ==
  /\ []StagesInOrder
  /\ [][stages' # stages => (err = <<>> /\ Len(stages') = Len(stages) + 1)]_vars

\* The encoder failed while running: the error is tagged "encoder" and the
\* decoder was not run.
C10_Witness ==
  /\ tPc = "done"
  /\ stages = <<"normalizer", "preprocessor", "encoder">>
  /\ err = <<"encoder error", "error running encoder", "ort">>
  /\ calls = <<>>

(***************************************************************************)
(* Error handling of a transcription call                                  *)
(***************************************************************************)
\* C11: a transcription call that returns an error, at whatever stage and
\* also when a decode step fails after tokens were emitted, returns the empty
\* text; a non-empty text is returned only with a nil error, after all
\* encoderLen decode steps were made.
C11_AllOrNothing ==
  tPc = "done"
    => /\ err # <<>> => result = <<>>
       /\ result # <<>> => /\ err = <<>>
                           /\ Len(calls) = encoderLen
                           /\ \A i \in 1..Len(calls) : calls[i].bestToken >= 0

\* The decoder-joint failed while running at a step t > 0, after a token with
\* visible characters had been emitted; the call returned "" and the error.
C11_Witness ==
  /\ tPc = "done"
  /\ err = <<"decoder error", "decoder step error", "error running decoder", "ort">>
  /\ Len(calls) >= 2
  /\ transcribedTokens # <<>>
  /\ Detokenize(transcribedTokens) # <<>>
  /\ result = <<>>

(***************************************************************************)
(* Native sessions and tensors                                             *)
(***************************************************************************)
\* C12: each of the three inference sessions is constructed at most once,
\* over any sequence of transcription calls and decode steps.
C12_SessionsConstructedOnce ==
  \A m \in DOMAIN ort.sessions : ort.sessions[m] <= 1

\* C13: every native tensor and session created by a stage function is
\* destroyed exactly once before that function returns, on every exit path:
\* between stages and after Transcribe has returned, with a transcript or
\* with an error, no handle created by the call is alive, no handle was
\* destroyed a second time, and as many handles were destroyed as created.
C13_HandlesReleased ==
  /\ ort.live = 0
  /\ ort.destroyedDead = 0
  /\ ort.destroyed = ort.created

\* The creation of the decoder session failed at a step t > 0: the eight
\* tensors of that step had been created, as had the five handles of the
\* preprocessor, the five of the encoder and the nine of every earlier step.
C13_Witness ==
  /\ tPc = "done"
  /\ err = <<"decoder error", "decoder step error", "error creating decoder session",
             "ort">>
  /\ Len(calls) >= 1
  /\ ort.created = 5 + 5 + Len(calls) * 9 + 8
  /\ ort.destroyed = ort.created
  /\ ort.live = 0

(***************************************************************************)
(* Audio normalizer                                                        *)
(***************************************************************************)
\* The WAV file of the call, once processWAVBytes has returned its samples.
Normalized == tPc = "transcribe"
Wav == WavFiles[wavData]

\* the rational x, in lowest terms, is the integer n divided by the positive
\* integer d
RatIs(x, n, d) == x = Rat(n, d)

\* C14: for a WAV input that is already mono at 16 kHz the normalizer neither
\* mixes nor resamples: the output has as many samples as the source, and
\* output sample i is source sample i divided by 32768, in the same order.
C14_MonoIdentity ==
  (Normalized /\ Wav.numChannels = 1 /\ Wav.sampleRate = TargetSampleRate)
    => /\ Len(samples) = Len(Wav.data)
       /\ \A i \in 1..Len(samples) : RatIs(samples[i], Wav.data[i], PCMFullScale)

C14_Witness ==
  /\ Normalized
  /\ wavData = "mono16k"
  /\ samples = << <<1, 2>>, <<-1, 1>>, <<32767, 32768>> >>

\* the sum of the integers data[from + 1 .. from + n]
RECURSIVE SumInts(_, _, _)
SumInts(data, from, n) ==
  IF n = 0 THEN 0 ELSE data[from + n] + SumInts(data, from, n - 1)

\* mono is the mix of the interleaved integer samples data of C channels
IsChannelMean(mono, data, C) ==
  /\ Len(mono) = Len(data) \div C
  /\ \A i \in 1..Len(mono) :
       RatIs(mono[i], SumInts(data, (i - 1) * C, C), C * PCMFullScale)

\* C15: for an input with C > 1 channels holding F frames, channel mixing
\* outputs F samples, output sample i being the arithmetic mean of the C
\* source samples of frame i; at 16 kHz this is the normalizer's output.
C15_ChannelMean ==
  (Normalized /\ Wav.numChannels > 1)
    => /\ IsChannelMean(
            convertToMono([j \in 1..Len(Wav.data) |-> Rat(Wav.data[j], PCMFullScale)],
                          Wav.numChannels),
            Wav.data, Wav.numChannels)
       /\ Wav.sampleRate = TargetSampleRate
            => IsChannelMean(samples, Wav.data, Wav.numChannels)

\* Three channels, two whole frames and one sample of a third.
C15_Witness ==
  /\ Normalized
  /\ wavData = "threeCh16k"
  /\ samples = << <<-7, 32768>>, <<32767, 32768>> >>

\* C16: for a mono input of length L at a source rate R other than 16000 the
\* resampled output length is floor(L * 16000 / R) within one sample, when
\* down-sampling and when up-sampling.
C16_ResampledLength ==
  (Normalized /\ Wav.sampleRate # TargetSampleRate /\ Wav.sampleRate # 0)
    => LET L == IF Wav.numChannels > 1 THEN Len(Wav.data) \div Wav.numChannels
                ELSE Len(Wav.data)
           expected == (L * TargetSampleRate) \div Wav.sampleRate
       IN /\ Len(samples) >= expected - 1
          /\ Len(samples) <= expected + 1

\* Down-sampling from 44.1 kHz: nine samples become three.
C16_Witness ==
  /\ Normalized
  /\ wavData = "mono44k"
  /\ Len(Wav.data) = 9
  /\ Len(samples) = 3

\* Up-sampling from 4480 Hz, where the length is one less than the exact
\* quotient: seven samples become 24, not 25.
C16_WitnessRounding ==
  /\ Normalized
  /\ wavData = "mono4480"
  /\ Len(Wav.data) = 7
  /\ Len(samples) = 24

\* Up-sampling from 8 kHz: two samples become four.
C16_WitnessUp ==
  /\ Normalized
  /\ wavData = "mono8k"
  /\ Len(samples) = 4

\* C17: every sample produced by the normalizer lies in [-1, 1], for every
\* source channel count, sample rate and bit depth.
C17_SamplesInRange ==
  Normalized
    => \A i \in 1..Len(samples) :
         RatLeq(<<-1, 1>>, samples[i]) /\ RatLeq(samples[i], <<1, 1>>)

(***************************************************************************)
(* Vocabulary                                                              *)
(***************************************************************************)
\* C18: after LoadVocabulary has succeeded on a non-empty token table, the
\* blank index is a valid index into the loaded token list: it is the index
\* of "<blk>" when the table contains it, and of the last token otherwise.
C18_BlankIndexValid ==
  (vocabLoaded /\ vocab # <<>>)
    => /\ blankIdx \in 0..(Len(vocab) - 1)
       /\ IF \E k \in 1..Len(vocab) : vocab[k] = BlkToken
          THEN vocab[blankIdx + 1] = BlkToken
          ELSE blankIdx = Len(vocab) - 1

(***************************************************************************)
(* Tensors handed to the encoder and to the decoder-joint                  *)
(***************************************************************************)
\* C19: the feature tensor handed to the encoder session has its time axis
\* cropped to the reported valid length: the input shape is
\* [1, 128, featuresLen], the length input is featuresLen, and the output is
\* pre-sized [1, 1024, ceil(featuresLen / 8)].
C19_EncoderInputCropped ==
  encCall # NoCall
    => /\ encCall.audioSignalShape = <<1, parakeetNumMelBins, featuresLen>>
       /\ encCall.length = featuresLen
       /\ encCall.outputShape =
            <<1, parakeetEncoderHiddenSize,
              (featuresLen + parakeetSubsamplingFactor - 1) \div parakeetSubsamplingFactor>>

\* The allocated time size of the encoder output [1, 1024, T2].
AllocatedEncoderSteps == TensorLen(encoderOut) \div parakeetEncoderHiddenSize

\* C20: at decode step t, element k of the tensor given to the decoder-joint
\* is element [0, k, t] of the encoder output laid out as [1, 1024, T2], for
\* every k < 1024 and every allocated T2 >= encoderLen.
C20_StepIsTimeSlice ==
  (tPc = "decoding" /\ t < encoderLen)
    => \A k \in 0..(parakeetEncoderHiddenSize - 1) :
         StepData(encoderOut, encoderLen, t)[k]
           = TensorAt(encoderOut, k * AllocatedEncoderSteps + t)

(***************************************************************************)
(* Engine: recording and processing                                        *)
(***************************************************************************)
BusyStatuses == {StatusTranscribing, StatusPostProcessing}

\* C21: ToggleRecording starts the recorder only when the status is Loaded
\* and stops it only when the status is Listening; in any other status it
\* changes neither the status nor the recorder; so the recorder is never
\* started before the models are loaded or while a recording is processed.
C21_ToggleGuards ==
  /\ [][(uiPc = "idle" /\ uiClicks' = uiClicks + 1)
          => /\ uiPc' = "startRecording" => statusCurrent = StatusLoaded
             /\ uiPc' = "stopRecording" => statusCurrent = StatusListening
             /\ statusCurrent \notin {StatusLoaded, StatusListening}
                  => (uiPc' = "idle"
                      /\ UNCHANGED <<statusCurrent, statusPrevious, isRecording,
                                     recData, device>>)]_vars
  /\ [](uiPc = "startRecording"
          => /\ lmPc = "done"
             /\ \A p \in DOMAIN procs : ~ProcessRecordingActive(p))

\* The goroutine p stops running in this step: it returns or it panics.
ProcessRecordingEnds(p) ==
  /\ ProcessRecordingActive(p)
  /\ procs'[p].pc \in {"done", "panicked"}

\* C22: every processRecording run ends by setting the status to Loaded,
\* whichever call fails in between, and while the process runs a busy status
\* (Transcribing or PostProcessing) is always followed by Loaded.
C22_EndsLoaded ==
  /\ [][\A p \in DOMAIN procs :
          ProcessRecordingEnds(p)
            => /\ procs'[p].pc = "done"
               /\ statusCurrent' = StatusLoaded
               /\ statusPrevious' = statusCurrent]_vars
  /\ (statusCurrent \in BusyStatuses /\ mainPc # "exited")
       ~> (statusCurrent = StatusLoaded \/ mainPc = "exited")

\* C23: the audio a processRecording run saves is the buffer captured between
\* the Recorder.Start and the Recorder.Stop that spawned the run.
C23_SavedIsCaptured ==
  \A p \in DOMAIN procs :
    procs[p].pc \in {"readFile", "transcribing", "setPostProcessing", "process",
                     "write", "addHistory", "setLoaded"}
      => procs[p].saved = procs[p].captured

\* C24: a Recorder.Start that fails while initializing or starting the
\* capture device leaves the recorder not recording.
C24_FailedStartNotRecording ==
  [][(uiPc = "startRecording" /\ ~isRecording /\ uiPc' = "idle")
       => ~isRecording']_vars

\* C25: when Process returns an error the run does not fail: the text written
\* and added to the history is the raw transcription, and the run goes on to
\* set the status to Loaded; the result of Process replaces the raw text only
\* when Process returned no error.
C25_PostProcessFallback ==
  /\ [](\A p \in DOMAIN procs :
          procs[p].ppErr
            => /\ procs[p].pc \in {"write", "addHistory", "setLoaded"}
               /\ procs[p].text = procs[p].raw
               /\ procs[p].written \in {<<>>, <<procs[p].raw>>}
               /\ procs[p].added \in {<<>>, <<procs[p].raw>>})
  /\ [][\A p \in DOMAIN procs :
          procs[p].ppErr
            => /\ (procs[p].pc = "write" /\ procs'[p].pc # "write")
                    => (procs'[p].pc = "addHistory"
                        /\ procs'[p].written = <<procs[p].raw>>)
               /\ (procs[p].pc = "addHistory" /\ procs'[p].pc # "addHistory")
                    => (procs'[p].pc = "setLoaded"
                        /\ procs'[p].added = <<procs[p].raw>>)
               /\ (procs[p].pc = "setLoaded" /\ procs'[p].pc # "setLoaded")
                    => (procs'[p].pc = "done"
                        /\ statusCurrent' = StatusLoaded)]_vars

(***************************************************************************)
(* runDecoder: invariants of the loop                                      *)
(***************************************************************************)
\* The locals of runDecoder are live: the loop is running or has ended.
RunDecoderLive ==
  \/ tPc = "decoding"
  \/ (tPc = "done" /\ err = <<>> /\ \E i \in 1..Len(stages) : stages[i] = "decoder")

\* The number of emitted tokens after decoder call i.
EmittedAfter(i) ==
  IF i < Len(calls) THEN calls[i + 1].emitted ELSE Len(transcribedTokens)

\* Decoder call i appended a token to the emitted sequence.
Emits(i) == EmittedAfter(i) > calls[i].emitted

EmittingCalls == {i \in 1..Len(calls) : Emits(i)}

\* The most recent emitting call (0 when there is none).
LastEmitting == IF EmittingCalls = {} THEN 0
                ELSE CHOOSE i \in EmittingCalls : \A j \in EmittingCalls : j <= i

\* C26: at every point of the decode loop: no emitted token is the blank
\* index; two consecutive emitted tokens are equal only with a blank decision
\* between them; the last-token input is the blank index while nothing has
\* been emitted and the most recent emitted token afterwards; the two states
\* are zero while nothing has been emitted and afterwards the states returned
\* at the most recent emission; the emitted count is at most the number of
\* steps processed.
C26_DecodeLoopInvariants ==
  /\ [](RunDecoderLive =>
          /\ \A i \in EmittingCalls :
               /\ calls[i].bestToken # blankIdx
               /\ EmittedAfter(i) = calls[i].emitted + 1
               /\ transcribedTokens[EmittedAfter(i)] = vocab[calls[i].bestToken + 1]
          /\ \A i, j \in EmittingCalls :
               (i < j /\ (\A k \in EmittingCalls : ~(i < k /\ k < j))
                  /\ calls[i].bestToken = calls[j].bestToken)
                 => \E k \in (i + 1)..(j - 1) : calls[k].bestToken = blankIdx
          /\ lastToken = IF LastEmitting = 0 THEN blankIdx
                         ELSE calls[LastEmitting].bestToken
          /\ LastEmitting = 0 => (state1 = ZeroState /\ state2 = ZeroState)
          /\ (LastEmitting # 0 /\ LastEmitting = Len(calls))
               => (state1 = step.newState1 /\ state2 = step.newState2)
          /\ Len(transcribedTokens) = Cardinality(EmittingCalls)
          /\ Len(transcribedTokens) <= Len(calls)
          /\ Len(calls) = t)
  /\ [][(tPc = "decoding" /\ tPc' = "decoding"
          /\ Len(transcribedTokens') = Len(transcribedTokens))
          => UNCHANGED <<state1, state2, lastToken>>]_vars

\* Three decisions: a token, blank, the same token again; both are emitted
\* and the states are those returned by the third call.
C26_Witness ==
  /\ tPc = "decoding"
  /\ Len(calls) = 3
  /\ EmittingCalls = {1, 3}
  /\ calls[1].bestToken = calls[3].bestToken
  /\ calls[2].bestToken = blankIdx
  /\ lastToken = calls[3].bestToken
  /\ state1 = step.newState1
  /\ state1 # ZeroState

(***************************************************************************)
(* LoadVocabulary: failures and repeated loads                             *)
(***************************************************************************)
\* C28: a LoadVocabulary call that fails (open or read error) leaves the
\* token list and the blank index unchanged; the two are replaced together
\* by a call that read the whole table, so they are always those of the last
\* table loaded successfully, and loading the same table again gives the same
\* token count and blank index.
C28_LoadAllOrNothing ==
  /\ [](IF lastLoad.okLines = <<"none">>
         THEN vocab = <<>> /\ blankIdx = 0 /\ ~vocabLoaded
         ELSE /\ vocab = LoadVocabulary(lastLoad.okLines).vocab
              /\ blankIdx = LoadVocabulary(lastLoad.okLines).blankIdx
              /\ vocabLoaded)
  /\ [][lastLoad'.seq = lastLoad.seq + 1
          => /\ lastLoad'.err # <<>> => UNCHANGED <<vocab, blankIdx>>
             /\ lastLoad'.err \in {<<>>, ErrOpeningVocab, ErrReadingVocab}
             /\ (lastLoad'.err = <<>> /\ lastLoad'.lines = lastLoad.okLines)
                  => (Len(vocab') = Len(vocab) /\ blankIdx' = blankIdx)]_vars

\* A table was loaded, then the load of another table failed while reading:
\* the model still holds the first table.
C28_Witness ==
  /\ lastLoad.seq >= 2
  /\ lastLoad.err = ErrReadingVocab
  /\ lastLoad.okLines = VocabHello
  /\ lastLoad.lines = VocabGap
  /\ vocab = LoadVocabulary(VocabHello).vocab
  /\ vocab # <<>>

(***************************************************************************)
(* resample: indices read                                                  *)
(***************************************************************************)
\* C27: resample never reads outside its input: for every input length,
\* every pair of rates and every output index i below the target length the
\* floor index floor(i * fromRate / toRate) is in 0..L-1, the index read is
\* that floor index (or the one before it when the float64 product falls
\* just below the integer), it is in 0..L-1, and the next index is index + 1
\* clamped to L - 1; an empty input gives an empty output.
C27_ResampleReadsInRange ==
  LET c == resampleCall
      L == Len(c.input)
  IN c.called
       => /\ ~c.panic
          /\ L = 0 => (~c.makePanic /\ c.output = <<>>)
          /\ ~c.makePanic
               => /\ Len(c.output) = Int64Value(c.targetLength)
                  /\ c.fromRate # c.toRate
                       => /\ Len(c.low) = Len(c.output) /\ Len(c.high) = Len(c.output)
                          /\ \A j \in 1..Len(c.output) :
                               LET floorIndex ==
                                     ((j - 1) * Abs(c.fromRate)) \div Abs(c.toRate)
                               IN /\ floorIndex \in 0..(L - 1)
                                  /\ c.low[j] \in {floorIndex, floorIndex - 1}
                                  /\ c.low[j] \in 0..(L - 1)
                                  /\ c.high[j] = Min({c.low[j] + 1, L - 1})
                                  /\ c.high[j] \in 0..(L - 1)

(***************************************************************************)
(* state.Instance: the history                                             *)
(***************************************************************************)
\* The IDs of the entries of h.
HistoryIDs(h) == {h[k].ID : k \in 1..Len(h)}

\* A step keeps the IDs fresh: nextID never decreases, a new entry takes the
\* old nextID, and the list after a step is a prefix (the newest entries) of
\* the list with or without the new entry.
HistoryStepKeepsNewest ==
  /\ nextID' >= nextID
  /\ (nextID' > nextID)
       => /\ nextID' = nextID + 1
          /\ \E n \in 0..(Len(history) + 1) :
               \E text \in HistoryTexts :
                 history' = SubSeq(<<[ID |-> nextID, Text |-> text]>> \o history, 1, n)
  /\ (nextID' = nextID)
       => \E n \in 0..Len(history) : history' = SubSeq(history, 1, n)

\* No operation has failed, the list respects the limit (no entry at all for
\* a limit below 1) and is ordered newest first with fresh IDs.
HistoryWellFormed ==
  /\ ~historyPanic
  /\ Len(history) <= Max({historyLimit, 0})
  /\ \A k \in 1..(Len(history) - 1) : history[k].ID > history[k + 1].ID
  /\ \A k \in 1..Len(history) : history[k].ID < nextID

\* C29: after any sequence of AddHistoryEntry, ClearHistory and
\* SetHistoryLimit, for every integer limit given to New or SetHistoryLimit:
\* no operation fails, the history holds at most historyLimit entries, newest
\* first with strictly decreasing IDs; an ID is never reused, also after
\* ClearHistory; the entries dropped on overflow are the oldest.
C29_HistoryBounded == []HistoryWellFormed /\ [][HistoryStepKeepsNewest]_vars

(***************************************************************************)
(* state.Instance: SetStatus and GetStatus under concurrency               *)
(***************************************************************************)
\* The pairs a GetStatus call may return.
WholePairs == statusProduced \cup {InitialPair}

\* C30: SetStatus(s) leaves current = s and previous = the status that was
\* current when the call took effect, and the two writes are one atomic step
\* for every GetStatus: the pair GetStatus returns was written by a single
\* SetStatus call, or is the initial pair (Unloaded, Unknown).
C30_StatusPairAtomic ==
  /\ \A r \in StatusReaders :
       statusThreads[r].pc = "returned"
         => <<statusThreads[r].current, statusThreads[r].previous>> \in WholePairs
  /\ \A w \in StatusWriters :
       statusThreads[w].pc = "unlock"
         => /\ statusCurrent = statusThreads[w].arg
            /\ statusPrevious = statusThreads[w].old
  /\ statusMu.writer = 0 => <<statusCurrent, statusPrevious>> \in WholePairs
  /\ \A r \in StatusReaders :
       statusThreads[r].pc = "readPrevious"
         => (statusThreads[r].current = statusCurrent /\ statusMu.writer = 0)

\* GetStatus has returned the pair of an earlier SetStatus while another
\* SetStatus is between its two writes.
C30_Witness ==
  /\ \E r \in StatusReaders :
       /\ statusThreads[r].pc = "returned"
       /\ <<statusThreads[r].current, statusThreads[r].previous>> \in statusProduced
       /\ statusThreads[r].current # statusPrevious
  /\ \E w \in StatusWriters : statusThreads[w].pc = "setCurrent"
  /\ statusPrevious = statusCurrent

====
